---- MODULE Spec2Model ----
(***************************************************************************)
(* Magentic bridge and agent tools: the pointer validity check, the        *)
(* harmony scripts (extend_harmony, replace_harmony) that run inside the   *)
(* bridge's /execute handler, and the volume envelope handlers             *)
(* (create_volume_envelope, remove_volume_envelope).                       *)
(*                                                                         *)
(* The host (REAPER, reached through reapy) is modelled only as far as the *)
(* calls the code makes: a project of tracks, MIDI items holding notes,    *)
(* one volume envelope per track.  A host call may raise (the remote       *)
(* connection can drop between any two calls).                             *)
(***************************************************************************)
EXTENDS Integers, Sequences, FiniteSets, TLC

VARIABLES
    ptrIn,      \* the handle value given to _is_null_ptr
    ptrOut,     \* <<>> before the call, <<b>> once _is_null_ptr returned b
    tracks,     \* host project: sequence of tracks, each a sequence of MIDI items
    hpc,        \* harmony script: position in the script
    hreq,       \* harmony script: the tool call's arguments
    hloc,       \* harmony script: its local variables
    midiLog,    \* host MIDI writes issued by the running script, in order
    envs,       \* host project: the volume envelope of each track
    selected,   \* host project: whether each track is selected
    lock,       \* REAPY_LOCK: 0 when free, else the id of the request holding it
    epc,        \* envelope requests: position of each request's handler
    ereq,       \* envelope requests: the request body of each
    eloc,       \* envelope requests: the handler's local variables
    eres,       \* envelope requests: the returned result
    envLog,     \* host envelope calls issued so far, in order
    nreq,       \* number of envelope requests started so far
    iin,        \* interpolation: the request whose points are expanded
    iout,       \* interpolation: <<>> before, <<result>> after the expansion
    bpc,        \* bridge requests: position of each request's handler
    bep,        \* bridge requests: the endpoint each request was sent to
    bleft,      \* bridge requests: host calls the handler has still to make
    hostLog,    \* host calls of the bridge requests: begin and end of each
    tpc,        \* tool call: position of the calling tool function
    tcall,      \* tool call: the tool function called
    tres,       \* tool call: what the tool function gave its caller
    mpc,        \* MIDI script: position in the script
    mreq,       \* MIDI script: the tool call's arguments
    mitem,      \* MIDI script: the host's item (tempo, position, notes)
    mlog,       \* MIDI script: the host calls made, in order
    mout,       \* MIDI script: the notes read_midi_notes printed
    opc,        \* orchestrator: number of plan steps handled so far
    oplan,      \* orchestrator: the plan
    oresults,   \* orchestrator: results, per agent
    oerrors,    \* orchestrator: errors
    olog        \* orchestrator: the agents dispatched to, in order

ptrVars    == <<ptrIn, ptrOut>>
harmVars   == <<tracks, hpc, hreq, hloc, midiLog>>
envVars    == <<envs, selected, lock, epc, ereq, eloc, eres, envLog, nreq>>
interpVars == <<iin, iout>>
bridgeVars == <<bpc, bep, bleft, hostLog>>
toolVars   == <<tpc, tcall, tres>>
midiVars   == <<mpc, mreq, mitem, mlog, mout>>
orchVars   == <<opc, oplan, oresults, oerrors, olog>>
clientVars == <<toolVars, midiVars, orchVars>>
vars       == <<ptrIn, ptrOut, tracks, hpc, hreq, hloc, midiLog,
                envs, selected, lock, epc, ereq, eloc, eres, envLog, nreq,
                iin, iout, bpc, bep, bleft, hostLog,
                tpc, tcall, tres, mpc, mreq, mitem, mlog, mout,
                opc, oplan, oresults, oerrors, olog>>

(***************************************************************************)
(* Generic helpers                                                         *)
(***************************************************************************)
SeqsUpTo(S, n) == UNION { [1..k -> S] : k \in 0..n }

(***************************************************************************)
(* 1. Pointer validity check: bridge/main.py _is_null_ptr                  *)
(*                                                                         *)
(* A value is None, an int, a float (held in tenths) or a string (held as  *)
(* its sequence of one-character strings).                                 *)
(***************************************************************************)
MaxStrLen == 4
MaxHexLen == 3

NoneVal     == [k |-> "none",  v |-> 0, s |-> <<>>]
IntVal(n)   == [k |-> "int",   v |-> n, s |-> <<>>]
FloatVal(t) == [k |-> "float", v |-> t, s |-> <<>>]
StrVal(cs)  == [k |-> "str",   v |-> 0, s |-> cs]

DigitChars == <<"0", "1", "2", "3", "4", "5", "6", "7", "8", "9">>
HexUpper   == <<"0", "1", "2", "3", "4", "5", "6", "7", "8", "9",
                "A", "B", "C", "D", "E", "F">>
HexLower   == <<"0", "1", "2", "3", "4", "5", "6", "7", "8", "9",
                "a", "b", "c", "d", "e", "f">>

\* str() of a small int
IntStr(n) ==
    IF n < 0 THEN <<"-", DigitChars[(-n) + 1]>> ELSE <<DigitChars[n + 1]>>

\* str(ptr): an int prints its digits, a float its digits, a point and the
\* tenths digit, None prints "None", a string is itself
PyStr(p) ==
    CASE p.k = "none"  -> <<"N", "o", "n", "e">>
      [] p.k = "int"   -> IntStr(p.v)
      [] p.k = "float" ->
            IF p.v < 0
            THEN <<"-">> \o IntStr((-p.v) \div 10) \o <<".", DigitChars[((-p.v) % 10) + 1]>>
            ELSE IntStr(p.v \div 10) \o <<".", DigitChars[(p.v % 10) + 1]>>
      [] OTHER         -> p.s

\* the strings of the tuple ("0", "None", "", "nil")
NullLiterals == { <<"0">>, <<"N", "o", "n", "e">>, <<>>, <<"n", "i", "l">> }

\* "0x" in s
Has0x(s) == \E i \in 1..(Len(s) - 1) : s[i] = "0" /\ s[i + 1] = "x"

\* s.split("0x")[-1]: the text after the last "0x" (occurrences of "0x"
\* cannot overlap, so the last piece of the split starts after the last one)
AfterLast0x(s) ==
    LET idx == { i \in 1..(Len(s) - 1) : s[i] = "0" /\ s[i + 1] = "x" }
        last == CHOOSE i \in idx : \A j \in idx : j <= i
    IN  SubSeq(s, last + 2, Len(s))

\* .rstrip(")")
RECURSIVE RStripParen(_)
RStripParen(s) ==
    IF s # <<>> /\ s[Len(s)] = ")" THEN RStripParen(SubSeq(s, 1, Len(s) - 1)) ELSE s

IsHexChar(c) == \E i \in 1..16 : HexUpper[i] = c \/ HexLower[i] = c
HexDigit(c)  == (CHOOSE i \in 1..16 : HexUpper[i] = c \/ HexLower[i] = c) - 1

RECURSIVE HexValue(_)
HexValue(s) ==
    IF s = <<>> THEN 0 ELSE 16 * HexValue(SubSeq(s, 1, Len(s) - 1)) + HexDigit(s[Len(s)])

\* int(hex_part, 16): -1 stands for ValueError (no digits, or a character that
\* is no hex digit); the strings of the model hold no sign, blank or underscore
ParseHex16(s) ==
    IF s = <<>> \/ \E i \in 1..Len(s) : ~IsHexChar(s[i]) THEN -1 ELSE HexValue(s)

\* hex_part = s.split("0x")[-1].rstrip(")")
HexPartNoStrip(s) == AfterLast0x(s)
HexPart(s) == RStripParen(AfterLast0x(s))

IsNullPtrAlways(ptr) == TRUE
IsNullPtr(ptr) ==
    IF ptr.k = "none" THEN TRUE
    ELSE IF ptr.k \in {"int", "float"} /\ ptr.v = 0 THEN TRUE
    ELSE LET s == PyStr(ptr) IN
         IF s \in NullLiterals THEN TRUE
         ELSE IF Has0x(s) /\ ParseHex16(HexPart(s)) # -1
              THEN ParseHex16(HexPart(s)) = 0
              ELSE FALSE

\* The handle values tried: None, small ints and floats, every string over a
\* small alphabet, the literal strings, and typed pointers "(T*)0x<hex>".
PtrAlphabet == {"0", "1", "x", ")"}
HexAlphabet == {"0", "7", "F"}
TypePrefix  == <<"(", "T", "*", ")">>
PtrInputs ==
    {NoneVal}
    \cup { IntVal(n) : n \in -1..2 }
    \cup { FloatVal(t) : t \in {-5, 0, 5, 10} }
    \cup { StrVal(cs) : cs \in SeqsUpTo(PtrAlphabet, MaxStrLen) }
    \cup { StrVal(cs) : cs \in { <<"N", "o", "n", "e">>, <<"n", "i", "l">>,
                                 <<"N", "i", "l">>, <<"n", "o", "n", "e">> } }
    \cup { StrVal(TypePrefix \o <<"0", "x">> \o h) : h \in SeqsUpTo(HexAlphabet, MaxHexLen) }

PtrInit == ptrIn \in PtrInputs /\ ptrOut = <<>>

\* one call of _is_null_ptr
CheckPtr ==
    /\ ptrOut = <<>>
    /\ ptrOut' = <<IsNullPtr(ptrIn)>>
    /\ UNCHANGED <<clientVars, ptrIn, harmVars, envVars, interpVars, bridgeVars>>

\* the next handle value arrives
NextPtr ==
    /\ ptrOut # <<>>
    /\ ptrIn' \in PtrInputs
    /\ ptrOut' = <<>>
    /\ UNCHANGED <<clientVars, harmVars, envVars, interpVars, bridgeVars>>

(***************************************************************************)
(* 2. Harmony scripts: agents/tools.py extend_harmony, replace_harmony     *)
(*                                                                         *)
(* The script text is sent to the bridge and run by exec() inside          *)
(* execute_code; each step below is one host call (or one loop iteration)  *)
(* of the script.  Positions are in ticks; a project quarter-note position *)
(* is held in ticks as well (TicksPerQN ticks to the quarter note).        *)
(***************************************************************************)
MaxNotes     == 2      \* source notes
MaxIntervals == 2      \* intervals of one call
MaxOld       == 2      \* notes the second item holds at the start
TicksPerQN   == 960
PitchMin     == 0
PitchMax     == 127

Note(p, v, c, s, e) == [pitch |-> p, vel |-> v, chan |-> c, s |-> s, e |-> e]

\* what a source note may be: a pitch with its velocity and channel
NoteKinds  == { <<0, 100, 0>>, <<60, 64, 3>>, <<127, 100, 0>> }
IntervalSet == { -1, 4, 7 }

\* the k-th source note sits on beat k-1 and lasts one beat
SourceNotes(kinds) ==
    [ k \in 1..Len(kinds) |->
        Note(kinds[k][1], kinds[k][2], kinds[k][3], (k - 1) * TicksPerQN, k * TicksPerQN) ]

OldNote(j)  == Note(40 + j, 90, 0, (j - 1) * TicksPerQN, j * TicksPerQN)
OldNotes(k) == [ j \in 1..k |-> OldNote(j) ]

Item(pos, len, notes) == [pos |-> pos, len |-> len, notes |-> notes]

\* a take handle is <<track index, item index>> (0-based); the null handle
NullTake == <<-1, -1>>

\* GetTrack + GetTrackMediaItem + GetActiveTake
TakeOf(trs, t, i) ==
    IF 0 <= t /\ t < Len(trs) /\ 0 <= i /\ i < Len(trs[t + 1])
    THEN <<t, i>> ELSE NullTake

ItemAt(trs, tk)  == trs[tk[1] + 1][tk[2] + 1]
NotesOf(trs, tk) == IF tk = NullTake THEN <<>> ELSE ItemAt(trs, tk).notes
PosOf(trs, tk)   == IF tk = NullTake THEN 0 ELSE ItemAt(trs, tk).pos
LenOf(trs, tk)   == IF tk = NullTake THEN 0 ELSE ItemAt(trs, tk).len

SetNotes(trs, tk, ns) ==
    IF tk = NullTake THEN trs
    ELSE [trs EXCEPT ![tk[1] + 1][tk[2] + 1].notes = ns]

\* MIDI_GetProjQNFromPPQPos / MIDI_GetPPQPosFromProjQN: a take's ticks count
\* from its item's start
QNFromPPQ(trs, tk, ppq) == PosOf(trs, tk) + ppq
PPQFromQN(trs, tk, qn)  == qn - PosOf(trs, tk)

RemoveAt(s, i) == SubSeq(s, 1, i - 1) \o SubSeq(s, i + 1, Len(s))

\* MIDI_DeleteNote(take, i), i 0-based; nothing happens on a null take or a
\* missing index
HostDeleteNote(trs, tk, i) ==
    IF tk = NullTake \/ i < 0 \/ i >= Len(NotesOf(trs, tk)) THEN trs
    ELSE SetNotes(trs, tk, RemoveAt(NotesOf(trs, tk), i + 1))

\* MIDI_InsertNote(take, ..., noSort = False): the note goes after the notes
\* that start no later than it; nothing happens on a null take
InsertSorted(ns, n) ==
    LET k == Cardinality({ j \in 1..Len(ns) : ns[j].s <= n.s })
    IN  SubSeq(ns, 1, k) \o <<n>> \o SubSeq(ns, k + 1, Len(ns))

HostInsertNote(trs, tk, n) ==
    IF tk = NullTake THEN trs ELSE SetNotes(trs, tk, InsertSorted(NotesOf(trs, tk), n))

\* CreateNewMIDIItemInProj(track, start, end): a new empty item at the end of
\* the track's items; a null item on a track that does not exist
HostCreateItem(trs, t, pos, len) ==
    IF 0 <= t /\ t < Len(trs)
    THEN [trs EXCEPT ![t + 1] = Append(@, Item(pos, len, <<>>))]
    ELSE trs

\* reading loop of both scripts: (s_qn, e_qn, pitch, vel) of every source
\* note in the host's order; the channel that was read is not kept
ReadSourceNotesNone(trs, tk) == <<>>
ReadSourceNotes(trs, tk) ==
    LET ns == NotesOf(trs, tk) IN
    [ i \in 1..Len(ns) |->
        [s_qn  |-> QNFromPPQ(trs, tk, ns[i].s),
         e_qn  |-> QNFromPPQ(trs, tk, ns[i].e),
         pitch |-> ns[i].pitch,
         vel   |-> ns[i].vel] ]

\* if 0 <= new_pitch <= 127
InRangeNoLowerBound(p) == p <= PitchMax
InRange(p) == PitchMin <= p /\ p <= PitchMax

\* for ... in src_notes: for iv in intervals: the (note index, interval index)
\* pairs in the order the nested loops visit them
PairsIntervalMajor(nNotes, nIntervals) ==
    [ k \in 1..(nNotes * nIntervals) |->
        <<((k - 1) % nNotes) + 1, ((k - 1) \div nNotes) + 1>> ]
Pairs(nNotes, nIntervals) ==
    [ k \in 1..(nNotes * nIntervals) |->
        <<((k - 1) \div nIntervals) + 1, ((k - 1) % nIntervals) + 1>> ]

\* MIDI_InsertNote(tgt_take, False, False, int(s_ppq), int(e_ppq), 0, new_pitch, vel, False)
HarmonyNote(trs, tk, sn, iv) ==
    Note(sn.pitch + iv, sn.vel, 0, PPQFromQN(trs, tk, sn.s_qn), PPQFromQN(trs, tk, sn.e_qn))

\* for i in range(old_count - 1, -1, -1): the loop ends below index 0
DeleteLoopDoneEarly(i) == i < 1
DeleteLoopDone(i) == i < 0

NoLocals ==
    [src_take |-> NullTake, src_notes |-> <<>>, tgt_take |-> NullTake,
     old_count |-> 0, i |-> 0, k |-> 1, count |-> 0, checked |-> {}]

\* (source item, target): the target of replace_harmony is an item, that of
\* extend_harmony a track; <<0, 1>>, <<1, 1>> and track 2 do not exist
ReplaceRefs == { << <<0, 0>>, <<1, 0>> >>, << <<0, 0>>, <<0, 0>> >>,
                 << <<0, 0>>, <<1, 1>> >>, << <<0, 0>>, <<2, 0>> >>,
                 << <<0, 1>>, <<1, 0>> >> }
ExtendRefs  == { << <<0, 0>>, <<1, 0>> >>, << <<0, 0>>, <<2, 0>> >>,
                 << <<0, 1>>, <<1, 0>> >> }

HarmonyRequests ==
    { [op |-> "replace", src |-> st[1], tgt |-> st[2], intervals |-> iv] :
        st \in ReplaceRefs, iv \in SeqsUpTo(IntervalSet, MaxIntervals) }
    \cup
    { [op |-> "extend", src |-> st[1], tgt |-> st[2], intervals |-> iv] :
        st \in ExtendRefs, iv \in SeqsUpTo(IntervalSet, MaxIntervals) }

NoRequest == [op |-> "none", src |-> NullTake, tgt |-> NullTake, intervals |-> <<>>]

\* the project: track 0 holds the source item, track 1 an item with old notes
HarmInit ==
    /\ \E kinds \in SeqsUpTo(NoteKinds, MaxNotes), k \in 0..MaxOld :
          tracks = << <<Item(0, MaxNotes * TicksPerQN, SourceNotes(kinds))>>,
                      <<Item(0, MaxNotes * TicksPerQN, OldNotes(k))>> >>
    /\ hpc = "idle"
    /\ hreq = NoRequest
    /\ hloc = NoLocals
    /\ midiLog = <<>>

\* the tool call arrives at the bridge and exec() starts the script
HStart ==
    /\ hpc = "idle"
    /\ hreq' \in HarmonyRequests
    /\ hpc' = "read"
    /\ UNCHANGED <<clientVars, tracks, hloc, midiLog, ptrVars, envVars, interpVars, bridgeVars>>

\* "Read source notes": the source take and the reading loop
HReadSource ==
    /\ hpc = "read"
    /\ LET tk == TakeOf(tracks, hreq.src[1], hreq.src[2]) IN
       hloc' = [hloc EXCEPT !.src_take = tk, !.src_notes = ReadSourceNotes(tracks, tk)]
    /\ hpc' = "target"
    /\ UNCHANGED <<clientVars, tracks, hreq, midiLog, ptrVars, envVars, interpVars, bridgeVars>>

\* replace_harmony "Clear target item": the target take and old_count
\* extend_harmony "Create target MIDI item": a new item at the source's place
HTarget ==
    /\ hpc = "target"
    /\ IF hreq.op = "replace"
       THEN LET tk == TakeOf(tracks, hreq.tgt[1], hreq.tgt[2])
                oc == Len(NotesOf(tracks, tk))
            IN  /\ hloc' = [hloc EXCEPT !.tgt_take = tk, !.old_count = oc, !.i = oc - 1]
                /\ hpc' = IF DeleteLoopDone(oc - 1) THEN "insert" ELSE "delete"
                /\ UNCHANGED tracks
       ELSE LET trs == HostCreateItem(tracks, hreq.tgt[1],
                                      PosOf(tracks, hloc.src_take), LenOf(tracks, hloc.src_take))
                tk  == IF trs = tracks THEN NullTake
                       ELSE <<hreq.tgt[1], Len(trs[hreq.tgt[1] + 1]) - 1>>
            IN  /\ tracks' = trs
                /\ hloc' = [hloc EXCEPT !.tgt_take = tk]
                /\ hpc' = "insert"
    /\ UNCHANGED <<clientVars, hreq, midiLog, ptrVars, envVars, interpVars, bridgeVars>>

\* the note that stands at index i of a take (what a deletion removes)
NoteAt(trs, tk, i) ==
    IF i + 1 \in 1..Len(NotesOf(trs, tk)) THEN NotesOf(trs, tk)[i + 1]
    ELSE Note(0, 0, 0, 0, 0)

\* one iteration of the deletion loop: RPR.MIDI_DeleteNote(tgt_take, i)
HDelete ==
    /\ hpc = "delete"
    /\ tracks' = HostDeleteNote(tracks, hloc.tgt_take, hloc.i)
    /\ midiLog' = Append(midiLog,
          [op |-> "delete", take |-> hloc.tgt_take, idx |-> hloc.i,
           note |-> NoteAt(tracks, hloc.tgt_take, hloc.i), from |-> 0, iv |-> 0,
           checked |-> hloc.tgt_take \in hloc.checked])
    /\ hloc' = [hloc EXCEPT !.i = hloc.i - 1]
    /\ hpc' = IF DeleteLoopDone(hloc.i - 1) THEN "insert" ELSE "delete"
    /\ UNCHANGED <<clientVars, hreq, ptrVars, envVars, interpVars, bridgeVars>>

\* one iteration of the nested insertion loops: one (note, interval) pair
HInsert ==
    /\ hpc = "insert"
    /\ LET ps == Pairs(Len(hloc.src_notes), Len(hreq.intervals)) IN
       IF hloc.k > Len(ps)
       THEN /\ hpc' = "sort"
            /\ UNCHANGED <<clientVars, tracks, hloc, midiLog, ptrVars, envVars, interpVars, bridgeVars>>
       ELSE LET sn == hloc.src_notes[ps[hloc.k][1]]
                iv == hreq.intervals[ps[hloc.k][2]]
                n  == HarmonyNote(tracks, hloc.tgt_take, sn, iv)
            IN  IF InRange(sn.pitch + iv)
                THEN /\ tracks' = HostInsertNote(tracks, hloc.tgt_take, n)
                     /\ midiLog' = Append(midiLog,
                           [op |-> "insert", take |-> hloc.tgt_take, idx |-> 0,
                            note |-> n, from |-> ps[hloc.k][1], iv |-> ps[hloc.k][2],
                            checked |-> hloc.tgt_take \in hloc.checked])
                     /\ hloc' = [hloc EXCEPT !.k = hloc.k + 1, !.count = hloc.count + 1]
                     /\ hpc' = "insert"
                ELSE /\ hloc' = [hloc EXCEPT !.k = hloc.k + 1]
                     /\ hpc' = "insert"
                     /\ UNCHANGED <<tracks, midiLog>>
    /\ UNCHANGED <<clientVars, hreq, ptrVars, envVars, interpVars, bridgeVars>>

\* RPR.MIDI_Sort(tgt_take); RPR.UpdateArrange(); print(...): the notes are
\* kept in start order by every insertion, so the sort moves nothing
HSort ==
    /\ hpc = "sort"
    /\ hpc' = "done"
    /\ UNCHANGED <<clientVars, tracks, hreq, hloc, midiLog, ptrVars, envVars, interpVars, bridgeVars>>

\* a host call raises (the connection to the host is lost): the exception
\* leaves exec() and execute_code answers success = False
HFail ==
    /\ hpc \in {"read", "target", "delete", "insert", "sort"}
    /\ hpc' = "failed"
    /\ UNCHANGED <<clientVars, tracks, hreq, hloc, midiLog, ptrVars, envVars, interpVars, bridgeVars>>


(***************************************************************************)
(* 3. Volume envelopes: bridge/main.py create_volume_envelope,             *)
(*    remove_volume_envelope, _interpolate_constant_db                     *)
(*                                                                         *)
(* A point time is a whole number of microseconds (round(t, 6) keeps six   *)
(* decimals of a second).  A gain is held by its decibel value, in units   *)
(* of 1/DbScale dB; the literal gain 0.0 is SilentGain.  The rounding of a *)
(* computed gain to six decimals is not modelled.                          *)
(***************************************************************************)
MaxPts   == 2      \* points of one request
MaxSteps == 2      \* num_interpolation_points of one request
DbScale  == 60
DbFloor  == -80
DefaultSteps == 20

SilentGain == -1000000
UnityGain  == 0
LinFloor   == DbFloor * DbScale

Point(t, v, s) == [time |-> t, value |-> v, shape |-> s]

TimeSet  == {0, 2}
GainSet  == {SilentGain, UnityGain}
PointSet == { Point(t, v, 0) : t \in TimeSet, v \in GainSet }

\* round(): to the nearest whole number, a tie to the even one
RoundDiv(num, den) ==
    LET q == num \div den
        r == num % den
    IN  IF 2 * r < den THEN q
        ELSE IF 2 * r > den THEN q + 1
        ELSE IF q % 2 = 0 THEN q ELSE q + 1

Max2Lower(a, b) == IF a >= b THEN b ELSE a
Max2(a, b) == IF a >= b THEN a ELSE b

RECURSIVE Concat(_)
Concat(ss) == IF ss = <<>> THEN <<>> ELSE Head(ss) \o Concat(Tail(ss))

\* the points of one segment p0 -> p1: for j in range(n_steps + 1)
SegmentPointsNoEnd(p0, p1, n) ==
    LET v0 == Max2(p0.value, LinFloor)
        v1 == Max2(p1.value, LinFloor)
    IN  [ k \in 1..n |->
            LET j == k - 1 IN
            Point(p0.time + RoundDiv(j * (p1.time - p0.time), n),
                  v0 + RoundDiv(j * (v1 - v0), n),
                  0) ]
SegmentPoints(p0, p1, n) ==
    LET v0 == Max2(p0.value, LinFloor)
        target_silence == p1.value = SilentGain
        v1 == Max2(p1.value, LinFloor)
    IN  [ k \in 1..(n + 1) |->
            LET j == k - 1 IN
            Point(p0.time + RoundDiv(j * (p1.time - p0.time), n),
                  IF j = n /\ target_silence THEN SilentGain
                  ELSE v0 + RoundDiv(j * (v1 - v0), n),
                  0) ]

\* _interpolate_constant_db(points, n_steps): err stands for the
\* ZeroDivisionError of j / n_steps when n_steps = 0
InterpolateConstantDb(points, n) ==
    IF Len(points) < 2 THEN [err |-> FALSE, pts |-> points]
    ELSE IF n = 0 THEN [err |-> TRUE, pts |-> <<>>]
    ELSE IF n < 0 THEN [err |-> FALSE, pts |-> <<>>]
    ELSE [err |-> FALSE,
          pts |-> Concat([ i \in 1..(Len(points) - 1) |->
                            SegmentPoints(points[i], points[i + 1], n) ])]

\* "interpolate if constant_db curve requested"
ExpandedPointsAnyCurve(body) == InterpolateConstantDb(body.points, body.steps)
ExpandedPoints(body) ==
    IF body.curve = "constant_db" /\ Len(body.points) >= 2
    THEN InterpolateConstantDb(body.points, body.steps)
    ELSE [err |-> FALSE, pts |-> body.points]

\* A chunk is its sequence of lines; a line is its first word and the numbers
\* after it.
Line(tag, args) == [tag |-> tag, args |-> args]

\* pt_lines: one "PT t v s" line per point, in the order of the list
PtLinesDropLast(points) ==
    [ i \in 1..(Len(points) - 1) |->
        Line("PT", <<points[i].time, points[i].value, points[i].shape>>) ]
PtLines(points) ==
    [ i \in 1..Len(points) |->
        Line("PT", <<points[i].time, points[i].value, points[i].shape>>) ]

\* "\n".join(pt_lines) + "\n": with no point at all an empty line is left
JoinedPtLines(points) ==
    IF points = <<>> THEN <<Line("", <<>>)>> ELSE PtLines(points)

\* env_chunk of create_volume_envelope
EnvChunk(points) ==
    << Line("<VOLENV", <<>>), Line("ACT", <<1, -1>>), Line("VIS", <<1, 1, 1>>),
       Line("LANEHEIGHT", <<0, 0>>), Line("ARM", <<0>>), Line("DEFSHAPE", <<0, -1, -1>>) >>
    \o JoinedPtLines(points) \o << Line(">", <<>>) >>

\* empty_chunk of remove_volume_envelope
EmptyChunkStillActive ==
    << Line("<VOLENV", <<>>), Line("ACT", <<1, -1>>), Line("VIS", <<0, 0, 0>>),
       Line("LANEHEIGHT", <<0, 0>>), Line("ARM", <<0>>), Line("DEFSHAPE", <<0, -1, -1>>),
       Line(">", <<>>) >>
EmptyChunk ==
    << Line("<VOLENV", <<>>), Line("ACT", <<0, -1>>), Line("VIS", <<0, 0, 0>>),
       Line("LANEHEIGHT", <<0, 0>>), Line("ARM", <<0>>), Line("DEFSHAPE", <<0, -1, -1>>),
       Line(">", <<>>) >>

\* Reading a chunk back: the flags are found by their word wherever their
\* line stands, the points are the PT lines in the order they stand.
FlagOf(chunk, tag) ==
    LET idx == { i \in 1..Len(chunk) : chunk[i].tag = tag }
    IN  IF idx = {} THEN FALSE
        ELSE chunk[CHOOSE i \in idx : \A j \in idx : i <= j].args[1] = 1

RECURSIVE PointsOf(_)
PointsOf(chunk) ==
    IF chunk = <<>> THEN <<>>
    ELSE IF Head(chunk).tag = "PT"
         THEN <<Point(Head(chunk).args[1], Head(chunk).args[2], Head(chunk).args[3])>>
              \o PointsOf(Tail(chunk))
         ELSE PointsOf(Tail(chunk))

DecodeChunk(chunk) ==
    [active |-> FlagOf(chunk, "ACT"), visible |-> FlagOf(chunk, "VIS"),
     points |-> PointsOf(chunk)]

IsTimeAscending(pts) == \A i \in 1..(Len(pts) - 1) : pts[i].time <= pts[i + 1].time

\* the time-ascending copy of a point list (points of equal time keep their order)
RECURSIVE SortByTime(_)
SortByTime(pts) ==
    IF pts = <<>> THEN <<>>
    ELSE LET rest == SortByTime(SubSeq(pts, 1, Len(pts) - 1))
             p    == pts[Len(pts)]
             k    == Cardinality({ j \in 1..Len(rest) : rest[j].time <= p.time })
         IN  SubSeq(rest, 1, k) \o <<p>> \o SubSeq(rest, k + 1, Len(rest))

\* ---- the host's side of the envelope calls ----
EnvState(ex, a, v, pts) == [exists |-> ex, active |-> a, visible |-> v, points |-> pts]
AbsentEnv == EnvState(FALSE, FALSE, FALSE, <<>>)

\* handles as reapy hands them over: "(T*)0x<address>", address 0 for none
NullEnvHandle == StrVal(TypePrefix \o <<"0", "x", "0", "0">>)
EnvHandleOf(t) == StrVal(TypePrefix \o <<"0", "x", "0", DigitChars[t + 2]>>)

\* GetTrack + GetTrackEnvelopeByName(track, "Volume"), t 0-based: the null
\* handle for a track that does not exist or has no volume envelope yet
GetEnvHandle(es, t) ==
    IF 0 <= t /\ t < Len(es) /\ es[t + 1].exists THEN EnvHandleOf(t) ELSE NullEnvHandle

HandleTrack(es, h) == CHOOSE t \in 0..(Len(es) - 1) : EnvHandleOf(t) = h

\* SetEnvelopeStateChunk(env, chunk, False): the envelope's whole state is
\* replaced by what the chunk says
HostSetChunk(es, h, chunk) ==
    IF h = NullEnvHandle THEN es
    ELSE LET d == DecodeChunk(chunk) IN
         [es EXCEPT ![HandleTrack(es, h) + 1] = EnvState(TRUE, d.active, d.visible, d.points)]

\* Envelope_SortPoints(env)
HostSortPoints(es, h) ==
    IF h = NullEnvHandle THEN es
    ELSE [es EXCEPT ![HandleTrack(es, h) + 1].points = SortByTime(@)]

\* Main_OnCommand(40406) on the selected track, when it takes effect: a
\* missing envelope is made, active and visible; an existing one changes
\* its visibility
HostToggle(es, t) ==
    IF ~(0 <= t /\ t < Len(es)) THEN es
    ELSE IF es[t + 1].exists
         THEN [es EXCEPT ![t + 1].visible = ~@]
         ELSE [es EXCEPT ![t + 1] = EnvState(TRUE, TRUE, TRUE, <<>>)]

\* _select_only_track(RPR, track_index): SetTrackSelected(t, i == track_index)
\* on every track of the project
SelectOnlyTrack(sel, t) == [ i \in 1..Len(sel) |-> (i - 1) = t ]

\* ---- requests ----
ReqIds == {1, 2}

Body(kind, t, ps, curve, n) ==
    [kind |-> kind, track |-> t, points |-> ps, curve |-> curve, steps |-> n]

\* tracks 0 and 1 exist, track 2 does not
CreateBodies ==
    { Body("create", 0, ps, "linear", DefaultSteps) : ps \in SeqsUpTo(PointSet, MaxPts) }
    \cup
    { Body("create", 0, ps, "constant_db", n) :
        ps \in SeqsUpTo(PointSet, MaxPts), n \in (-1)..MaxSteps }
    \cup
    { Body("create", 2, <<Point(0, UnityGain, 0)>>, "linear", DefaultSteps) }

RemoveBodies == { Body("remove", t, <<>>, "linear", DefaultSteps) : t \in {0, 2} }

\* the request that runs beside another one
RivalBodies ==
    { Body("remove", 0, <<>>, "linear", DefaultSteps),
      Body("create", 0, <<Point(2, SilentGain, 0), Point(0, UnityGain, 0)>>, "linear", DefaultSteps),
      Body("create", 0, <<Point(0, UnityGain, 0), Point(2, SilentGain, 0)>>, "constant_db", 1) }

BodiesOf(r) == IF r = 1 THEN CreateBodies \cup RemoveBodies ELSE RivalBodies

NoBody == Body("none", 0, <<>>, "linear", DefaultSteps)
NoEnvLocals == [env |-> NullEnvHandle, points |-> <<>>, checked |-> {}]

LogEntry(call, r, h, chunk, ok) ==
    [call |-> call, req |-> r, body |-> ereq[r], handle |-> h, chunk |-> chunk, checked |-> ok]

\* the project: two tracks; the first has no volume envelope yet, a hidden
\* one or a shown one with points, the second a shown one with a point; the
\* user has the second track selected
OldPoints == << Point(1, UnityGain, 0), Point(3, LinFloor, 0) >>
EnvInit ==
    /\ envs \in { << e, EnvState(TRUE, TRUE, TRUE, <<Point(1, UnityGain, 0)>>) >> :
                    e \in { AbsentEnv,
                            EnvState(TRUE, FALSE, FALSE, <<>>),
                            EnvState(TRUE, TRUE, TRUE, OldPoints) } }
    /\ selected = << FALSE, TRUE >>
    /\ lock = 0
    /\ epc = [r \in ReqIds |-> "none"]
    /\ ereq = [r \in ReqIds |-> NoBody]
    /\ eloc = [r \in ReqIds |-> NoEnvLocals]
    /\ eres = [r \in ReqIds |-> "none"]
    /\ envLog = <<>>
    /\ nreq = 0

\* a request reaches its handler and waits for REAPY_LOCK; it has touched
\* nothing yet
EArrive(r) ==
    /\ epc[r] = "none"
    /\ epc' = [epc EXCEPT ![r] = "wait"]
    /\ nreq' = nreq + 1
    /\ UNCHANGED <<clientVars, envs, lock, ereq, eloc, eres, envLog, ptrVars, harmVars, interpVars, bridgeVars, selected>>

\* with REAPY_LOCK: the handler enters with its request body
EAcquire(r) ==
    /\ epc[r] = "wait"
    /\ lock = 0
    /\ lock' = r
    /\ \E b \in BodiesOf(r) :
          /\ ereq' = [ereq EXCEPT ![r] = b]
          /\ epc' = [epc EXCEPT ![r] = IF b.kind = "create" THEN "start" ELSE "rstart"]
    /\ UNCHANGED <<clientVars, envs, eloc, eres, envLog, nreq, ptrVars, harmVars, interpVars, bridgeVars, selected>>

\* return inside "with REAPY_LOCK": the result is set and the lock released
Return(r, res) ==
    /\ eres' = [eres EXCEPT ![r] = res]
    /\ epc' = [epc EXCEPT ![r] = "done"]
    /\ lock' = 0

\* create_volume_envelope: the range check, GetTrack, the first
\* GetTrackEnvelopeByName and its null check
ECreateStart(r) ==
    /\ epc[r] = "start" /\ lock = r
    /\ LET t == ereq[r].track
           n_tracks == Len(envs)
       IN  IF t < 0 \/ t >= n_tracks
           THEN /\ Return(r, "error")
                /\ UNCHANGED eloc
           ELSE LET env == GetEnvHandle(envs, t) IN
                IF IsNullPtr(env)
                THEN /\ eloc' = [eloc EXCEPT ![r].env = env]
                     /\ epc' = [epc EXCEPT ![r] = "toggle"]
                     /\ UNCHANGED <<eres, lock>>
                ELSE /\ eloc' = [eloc EXCEPT ![r].env = env, ![r].checked = @ \cup {env}]
                     /\ epc' = [epc EXCEPT ![r] = "points"]
                     /\ UNCHANGED <<eres, lock>>
    /\ UNCHANGED <<clientVars, envs, ereq, envLog, nreq, ptrVars, harmVars, interpVars, bridgeVars, selected>>

\* the envelope is hidden or missing: _select_only_track, Main_OnCommand(40406),
\* GetTrackEnvelopeByName again and the second null check.  The command may
\* take no effect (the track is not visible in the host).
EToggle(r) ==
    /\ epc[r] = "toggle" /\ lock = r
    /\ \E took \in BOOLEAN :
         LET es  == IF took THEN HostToggle(envs, ereq[r].track) ELSE envs
             env == GetEnvHandle(es, ereq[r].track)
         IN  /\ envs' = es
             /\ selected' = SelectOnlyTrack(selected, ereq[r].track)
             /\ envLog' = Append(envLog, LogEntry("Main_OnCommand", r, eloc[r].env, <<>>, FALSE))
             /\ IF IsNullPtr(env)
                THEN /\ Return(r, "error")
                     /\ eloc' = [eloc EXCEPT ![r].env = env]
                ELSE /\ eloc' = [eloc EXCEPT ![r].env = env, ![r].checked = @ \cup {env}]
                     /\ epc' = [epc EXCEPT ![r] = "points"]
                     /\ UNCHANGED <<eres, lock>>
    /\ UNCHANGED <<clientVars, ereq, nreq, ptrVars, harmVars, interpVars, bridgeVars>>

\* "interpolate if constant_db curve requested"; an exception raised there
\* is caught by the handler's except and returned
EPoints(r) ==
    /\ epc[r] = "points" /\ lock = r
    /\ LET ex == ExpandedPoints(ereq[r]) IN
       IF ex.err
       THEN /\ Return(r, "error")
            /\ UNCHANGED eloc
       ELSE /\ eloc' = [eloc EXCEPT ![r].points = ex.pts]
            /\ epc' = [epc EXCEPT ![r] = "write"]
            /\ UNCHANGED <<eres, lock>>
    /\ UNCHANGED <<clientVars, envs, ereq, envLog, nreq, ptrVars, harmVars, interpVars, bridgeVars, selected>>

\* the chunk is built and RPR.SetEnvelopeStateChunk(env, env_chunk, False) called
EWrite(r) ==
    /\ epc[r] = "write" /\ lock = r
    /\ LET chunk == EnvChunk(eloc[r].points) IN
       /\ envs' = HostSetChunk(envs, eloc[r].env, chunk)
       /\ envLog' = Append(envLog,
             LogEntry("SetEnvelopeStateChunk", r, eloc[r].env, chunk,
                      eloc[r].env \in eloc[r].checked))
    /\ epc' = [epc EXCEPT ![r] = "sort"]
    /\ UNCHANGED <<clientVars, lock, ereq, eloc, eres, nreq, ptrVars, harmVars, interpVars, bridgeVars, selected>>

\* RPR.Envelope_SortPoints(env)
ESortPoints(r) ==
    /\ epc[r] = "sort" /\ lock = r
    /\ envs' = HostSortPoints(envs, eloc[r].env)
    /\ envLog' = Append(envLog, LogEntry("Envelope_SortPoints", r, eloc[r].env, <<>>,
                                         eloc[r].env \in eloc[r].checked))
    /\ epc' = [epc EXCEPT ![r] = "refresh"]
    /\ UNCHANGED <<clientVars, lock, ereq, eloc, eres, nreq, ptrVars, harmVars, interpVars, bridgeVars, selected>>

\* RPR.TrackList_AdjustWindows(False); RPR.UpdateArrange(); return success
ERefresh(r) ==
    /\ epc[r] = "refresh" /\ lock = r
    /\ envLog' = Append(envLog, LogEntry("UpdateArrange", r, eloc[r].env, <<>>, FALSE))
    /\ Return(r, "ok")
    /\ UNCHANGED <<clientVars, envs, ereq, eloc, nreq, ptrVars, harmVars, interpVars, bridgeVars, selected>>

\* remove_volume_envelope: GetTrack, GetTrackEnvelopeByName and the null check
ERemoveStart(r) ==
    /\ epc[r] = "rstart" /\ lock = r
    /\ LET env == GetEnvHandle(envs, ereq[r].track) IN
       IF IsNullPtr(env)
       THEN /\ Return(r, "ok")
            /\ eloc' = [eloc EXCEPT ![r].env = env]
       ELSE /\ eloc' = [eloc EXCEPT ![r].env = env, ![r].checked = @ \cup {env}]
            /\ epc' = [epc EXCEPT ![r] = "rwrite"]
            /\ UNCHANGED <<eres, lock>>
    /\ UNCHANGED <<clientVars, envs, ereq, envLog, nreq, ptrVars, harmVars, interpVars, bridgeVars, selected>>

\* RPR.SetEnvelopeStateChunk(env, empty_chunk, False)
ERemoveWrite(r) ==
    /\ epc[r] = "rwrite" /\ lock = r
    /\ envs' = HostSetChunk(envs, eloc[r].env, EmptyChunk)
    /\ envLog' = Append(envLog,
          LogEntry("SetEnvelopeStateChunk", r, eloc[r].env, EmptyChunk,
                   eloc[r].env \in eloc[r].checked))
    /\ epc' = [epc EXCEPT ![r] = "rrefresh"]
    /\ UNCHANGED <<clientVars, lock, ereq, eloc, eres, nreq, ptrVars, harmVars, interpVars, bridgeVars, selected>>

\* RPR.TrackList_AdjustWindows(False); RPR.UpdateArrange(); return success
ERemoveRefresh(r) ==
    /\ epc[r] = "rrefresh" /\ lock = r
    /\ envLog' = Append(envLog, LogEntry("UpdateArrange", r, eloc[r].env, <<>>, FALSE))
    /\ Return(r, "ok")
    /\ UNCHANGED <<clientVars, envs, ereq, eloc, nreq, ptrVars, harmVars, interpVars, bridgeVars, selected>>

\* a host call raises: the handler's except returns a structured error and
\* the with block releases the lock
EFail(r) ==
    /\ epc[r] \in {"start", "toggle", "write", "sort", "refresh", "rstart", "rwrite", "rrefresh"}
    /\ lock = r
    /\ Return(r, "error")
    /\ UNCHANGED <<clientVars, envs, ereq, eloc, envLog, nreq, ptrVars, harmVars, interpVars, bridgeVars, selected>>

(***************************************************************************)
(* 4. Interpolation on its own: the points create_volume_envelope makes of *)
(*    a request (bridge/main.py 401-404) and the chunk it builds of them   *)
(*    (406-423), over longer point lists than the two concurrent requests  *)
(*    above are given.                                                     *)
(***************************************************************************)
MaxInterpPts == 3      \* points of one request

\* gains 0.0, about 0.5 (-6 dB) and 1.0; times 0 s, 2 s and 4 s
HalfGain == -6 * DbScale
InterpGainSet  == {SilentGain, HalfGain, UnityGain}
InterpTimeSet  == {0, 2000000, 4000000}
InterpPointSet == { Point(t, v, 0) : t \in InterpTimeSet, v \in InterpGainSet }

\* num_interpolation_points: any int, the default among them
InterpStepsSet == ((-1)..MaxSteps) \cup {DefaultSteps}

InterpInputs ==
    { Body("create", 0, ps, curve, n) :
        ps \in SeqsUpTo(InterpPointSet, MaxInterpPts),
        curve \in {"linear", "constant_db"},
        n \in InterpStepsSet }

\* v = 10 ** (db / 20), round(v, 6): the gain in millionths, for the decibel
\* values that are whole multiples of 4 dB down to the floor
GainMicroTable ==
    << 1000000, 630957, 398107, 251189, 158489, 100000, 63096, 39811, 25119,
       15849, 10000, 6310, 3981, 2512, 1585, 1000, 631, 398, 251, 158, 100 >>
GainMicro(v) ==
    IF v = SilentGain THEN 0 ELSE GainMicroTable[((-v) \div (4 * DbScale)) + 1]

InterpInit ==
    /\ iin \in InterpInputs
    /\ iout = <<>>

\* points = _interpolate_constant_db(points, n) if constant_db and two points
\* or more, else the request's points
Interpolate ==
    /\ iout = <<>>
    /\ iout' = << ExpandedPoints(iin) >>
    /\ UNCHANGED <<clientVars, iin, ptrVars, harmVars, envVars, bridgeVars>>

\* pt_lines and env_chunk are built of the points; not reached when the
\* interpolation raised
BuildChunk ==
    /\ Len(iout) = 1
    /\ ~iout[1].err
    /\ iout' = Append(iout, EnvChunk(iout[1].pts))
    /\ UNCHANGED <<clientVars, iin, ptrVars, harmVars, envVars, bridgeVars>>

(***************************************************************************)
(* 5. REAPY_LOCK: the bridge's endpoints that talk to the host.  Each      *)
(*    handler is a "with REAPY_LOCK:" block around all its host calls; a   *)
(*    host call takes time (it is a round trip to the host) and may raise. *)
(*    REAPY_AVAILABLE is set True at import and never changed, so the      *)
(*    early return of /status, /execute and /analyze is never taken.       *)
(***************************************************************************)
MaxCalls == 2          \* host calls one handler makes

Endpoints ==
    {"/status", "/execute", "/analyze", "/envelope/volume",
     "/envelope/volume/remove", "/fx/presets/load"}

BridgeIds == {1, 2}

\* how many host calls a handler can make: /status makes one; code sent to
\* /execute and a preset file that is not found make none
CallsOf(ep) ==
    IF ep = "/status" THEN {1}
    ELSE IF ep \in {"/execute", "/fx/presets/load"} THEN 0..MaxCalls
    ELSE 1..MaxCalls

HostEvent(r, ev) == [req |-> r, ep |-> bep[r], ev |-> ev, holder |-> lock]

BridgeInit ==
    /\ lock = 0
    /\ bpc = [r \in BridgeIds |-> "none"]
    /\ bep = [r \in BridgeIds |-> "none"]
    /\ bleft = [r \in BridgeIds |-> 0]
    /\ hostLog = <<>>

envRest == <<envs, selected, epc, ereq, eloc, eres, envLog, nreq>>

\* a request is handed to a worker thread and reaches its handler
BArrive(r) ==
    /\ bpc[r] = "none"
    /\ \E ep \in Endpoints : bep' = [bep EXCEPT ![r] = ep]
    /\ bpc' = [bpc EXCEPT ![r] = "wait"]
    /\ UNCHANGED <<clientVars, lock, bleft, hostLog, ptrVars, harmVars, envRest, interpVars>>

\* threading.Lock: acquired only when no thread holds it
LockFreeAlways == TRUE
LockFree == lock = 0

\* with REAPY_LOCK:
BAcquire(r) ==
    /\ bpc[r] = "wait"
    /\ LockFree
    /\ lock' = r
    /\ bpc' = [bpc EXCEPT ![r] = "locked"]
    /\ \E n \in CallsOf(bep[r]) : bleft' = [bleft EXCEPT ![r] = n]
    /\ UNCHANGED <<clientVars, bep, hostLog, ptrVars, harmVars, envRest, interpVars>>

\* the handler sends a call to the host
BCallBegin(r) ==
    /\ bpc[r] = "locked"
    /\ bleft[r] > 0
    /\ bpc' = [bpc EXCEPT ![r] = "incall"]
    /\ hostLog' = Append(hostLog, HostEvent(r, "begin"))
    /\ UNCHANGED <<clientVars, lock, bep, bleft, ptrVars, harmVars, envRest, interpVars>>

\* the host's answer arrives
BCallEnd(r) ==
    /\ bpc[r] = "incall"
    /\ bpc' = [bpc EXCEPT ![r] = "locked"]
    /\ bleft' = [bleft EXCEPT ![r] = @ - 1]
    /\ hostLog' = Append(hostLog, HostEvent(r, "end"))
    /\ UNCHANGED <<clientVars, lock, bep, ptrVars, harmVars, envRest, interpVars>>

\* the call raises: the handler's except clause builds the error result,
\* no further host call is made
BCallRaise(r) ==
    /\ bpc[r] = "incall"
    /\ bpc' = [bpc EXCEPT ![r] = "locked"]
    /\ bleft' = [bleft EXCEPT ![r] = 0]
    /\ hostLog' = Append(hostLog, HostEvent(r, "end"))
    /\ UNCHANGED <<clientVars, lock, bep, ptrVars, harmVars, envRest, interpVars>>

\* return, inside the with block: the lock is released on the way out
BReturnKeepsLock(r) ==
    /\ bpc[r] = "locked"
    /\ bleft[r] = 0
    /\ bpc' = [bpc EXCEPT ![r] = "done"]
    /\ UNCHANGED <<clientVars, lock, bep, bleft, hostLog, ptrVars, harmVars, envRest, interpVars>>
BReturn(r) ==
    /\ bpc[r] = "locked"
    /\ bleft[r] = 0
    /\ bpc' = [bpc EXCEPT ![r] = "done"]
    /\ lock' = 0
    /\ UNCHANGED <<clientVars, bep, bleft, hostLog, ptrVars, harmVars, envRest, interpVars>>

(***************************************************************************)
(* 6. Tool functions: agents/tools.py _run, analyze_project,               *)
(*    create_volume_envelope, remove_volume_envelope.  A tool function     *)
(*    posts one HTTP request to the bridge and waits for the response up   *)
(*    to its timeout.  The tool's request is bridge request ToolReq; the   *)
(*    other bridge request is another client's.                            *)
(***************************************************************************)
Tools == {"_run", "analyze_project", "create_volume_envelope", "remove_volume_envelope"}

EndpointOf(tool) ==
    IF tool = "_run" THEN "/execute"
    ELSE IF tool = "analyze_project" THEN "/analyze"
    ELSE IF tool = "create_volume_envelope" THEN "/envelope/volume"
    ELSE "/envelope/volume/remove"

ToolReq == CHOOSE r \in BridgeIds : \A q \in BridgeIds : r <= q

\* what can come of the HTTP exchange: no connection, no response within the
\* timeout, a response with an error status, with an empty body, with a body
\* that is not JSON, or the bridge's JSON answer (success true or false)
Causes ==
    {"connection_error", "timeout", "http_error", "empty", "malformed",
     "json_ok", "json_error"}

\* what the caller of the tool function gets: a dict {success, error}, or an
\* exception (raised names it); cause and at are kept for the record only
Returned(cause, ok, msg) ==
    [raised |-> "", success |-> ok, error |-> msg, cause |-> cause]
Raised(cause, exc) ==
    [raised |-> exc, success |-> FALSE, error |-> "", cause |-> cause]

\* _run: Timeout and ConnectionError are caught, raise_for_status's
\* HTTPError is not; an empty body and a body that is not JSON are turned
\* into error dicts
RunOutcome(cause) ==
    IF cause = "timeout"
    THEN Returned(cause, FALSE, "Bridge timed out. The operation may still be running in REAPER")
    ELSE IF cause = "connection_error" THEN Returned(cause, FALSE, "Cannot reach bridge")
    ELSE IF cause = "http_error" THEN Raised(cause, "HTTPError")
    ELSE IF cause = "empty" THEN Returned(cause, FALSE, "Bridge returned an empty response")
    ELSE IF cause = "malformed" THEN Returned(cause, FALSE, "Bridge returned invalid JSON")
    ELSE IF cause = "json_ok" THEN Returned(cause, TRUE, "")
    ELSE Returned(cause, FALSE, "error of the script")

\* analyze_project: no try at all
AnalyzeOutcome(cause) ==
    IF cause = "timeout" THEN Raised(cause, "Timeout")
    ELSE IF cause = "connection_error" THEN Raised(cause, "ConnectionError")
    ELSE IF cause = "http_error" THEN Raised(cause, "HTTPError")
    ELSE IF cause \in {"empty", "malformed"} THEN Raised(cause, "JSONDecodeError")
    ELSE IF cause = "json_ok" THEN Returned(cause, TRUE, "")
    ELSE Returned(cause, FALSE, "error of the script")

\* create_volume_envelope, remove_volume_envelope: Timeout and
\* ConnectionError are caught; raise_for_status and resp.json() stand inside
\* the try but their exceptions are not among the caught ones
EnvelopeToolOutcome(cause) ==
    IF cause = "timeout" THEN Returned(cause, FALSE, "Envelope call timed out.")
    ELSE IF cause = "connection_error" THEN Returned(cause, FALSE, "Cannot reach bridge")
    ELSE IF cause = "http_error" THEN Raised(cause, "HTTPError")
    ELSE IF cause \in {"empty", "malformed"} THEN Raised(cause, "JSONDecodeError")
    ELSE IF cause = "json_ok" THEN Returned(cause, TRUE, "")
    ELSE Returned(cause, FALSE, "error of the handler")

Outcome(tool, cause) ==
    IF tool = "_run" THEN RunOutcome(cause)
    ELSE IF tool = "analyze_project" THEN AnalyzeOutcome(cause)
    ELSE EnvelopeToolOutcome(cause)

\* the tool function's result, with the bridge request's position at the
\* moment the function returned
ToolResult(cause) == << Outcome(tcall, cause), bpc[ToolReq] >>

ToolInit == tpc = "idle" /\ tcall = "none" /\ tres = <<>>

\* the tool function is called and posts its request
TSend ==
    /\ tpc = "idle"
    /\ \E tool \in Tools : tcall' = tool
    /\ tpc' = "sent"
    /\ UNCHANGED <<tres, midiVars, orchVars, ptrVars, harmVars, envVars, interpVars, bridgeVars>>

\* the bridge is not running: requests raises ConnectionError
TRefused ==
    /\ tpc = "sent"
    /\ tres' = ToolResult("connection_error")
    /\ tpc' = "returned"
    /\ UNCHANGED <<tcall, midiVars, orchVars, ptrVars, harmVars, envVars, interpVars, bridgeVars>>

\* the request reaches the bridge and is handed to its handler
TArrive ==
    /\ tpc = "sent"
    /\ bpc[ToolReq] = "none"
    /\ bep' = [bep EXCEPT ![ToolReq] = EndpointOf(tcall)]
    /\ bpc' = [bpc EXCEPT ![ToolReq] = "wait"]
    /\ tpc' = "waiting"
    /\ UNCHANGED <<tcall, tres, bleft, hostLog, midiVars, orchVars, ptrVars, harmVars,
                   envVars, interpVars>>

\* no response within the timeout: requests raises Timeout, whatever the
\* bridge is doing with the request
TTimeout ==
    /\ tpc = "waiting"
    /\ tres' = ToolResult("timeout")
    /\ tpc' = "returned"
    /\ UNCHANGED <<tcall, midiVars, orchVars, ptrVars, harmVars, envVars, interpVars, bridgeVars>>

\* the handler has returned and its response arrives in time
TResponse ==
    /\ tpc = "waiting"
    /\ bpc[ToolReq] = "done"
    /\ \E cause \in Causes \ {"connection_error", "timeout"} :
          tres' = ToolResult(cause)
    /\ tpc' = "returned"
    /\ UNCHANGED <<tcall, midiVars, orchVars, ptrVars, harmVars, envVars, interpVars, bridgeVars>>

\* the bridge has no way to learn that a caller stopped waiting: a handler
\* thread is never cancelled
CancelledAtTimeout(r) ==
    r = ToolReq /\ tpc = "returned" /\ tres[1].cause = "timeout"
Cancelled(r) == FALSE

\* the other client's request
TRival(r) == r # ToolReq /\ BArrive(r)

\* a step of the bridge on a request it has received
TBridge(r) ==
    /\ ~Cancelled(r)
    /\ \/ BAcquire(r) \/ BCallBegin(r) \/ BCallEnd(r) \/ BCallRaise(r) \/ BReturn(r)

(***************************************************************************)
(* 7. Orchestrator: agents/orchestrator.py handle.  The plan is a list of  *)
(*    steps, each naming an agent; an agent's run returns the list of its  *)
(*    tool call results or raises.                                         *)
(***************************************************************************)
MaxPlan    == 3        \* steps of a plan
MaxResults == 2        \* tool call results of one agent run

\* agent_map
AgentMap == {"MIDIAgent", "SoundAgent", "MixAgent"}

\* the names a plan may carry: the planner's answer is not checked
AgentNames == AgentMap \cup {"DrumAgent"}

Plans == SeqsUpTo(AgentNames, MaxPlan)

\* the results of step i when its agent made n tool calls
StepResults(i, n) == [ k \in 1..n |-> [step |-> i, call |-> k] ]

\* results.setdefault(agent_name, []).extend(step_results)
SetDefaultExtend(res, name, new) ==
    [ a \in (DOMAIN res) \cup {name} |->
        IF a = name
        THEN (IF a \in DOMAIN res THEN res[a] ELSE <<>>) \o new
        ELSE res[a] ]

\* for step in plan: the loop goes on to the next step whether the step
\* failed or not (i the steps handled so far, n the length of the plan)
AfterStepAbort(i, n, failed) == IF failed THEN n ELSE i + 1
AfterStep(i, n, failed) == i + 1

Handled(i, name, outcome) == [step |-> i, agent |-> name, outcome |-> outcome]

OrchInit ==
    /\ oplan \in Plans
    /\ opc = 0
    /\ oresults = <<>>
    /\ oerrors = <<>>
    /\ olog = <<>>

\* if agent_name not in agent_map: errors.append(...); continue
OUnknown ==
    /\ opc < Len(oplan)
    /\ oplan[opc + 1] \notin AgentMap
    /\ oerrors' = Append(oerrors, [step |-> opc + 1, text |-> "Unknown agent"])
    /\ olog' = Append(olog, Handled(opc + 1, oplan[opc + 1], "unknown"))
    /\ opc' = AfterStep(opc, Len(oplan), TRUE)
    /\ UNCHANGED <<oplan, oresults, toolVars, midiVars, ptrVars, harmVars, envVars,
                   interpVars, bridgeVars>>

\* the agent's run returns its tool call results, which are added to results
ODispatch ==
    /\ opc < Len(oplan)
    /\ oplan[opc + 1] \in AgentMap
    /\ \E n \in 0..MaxResults :
          oresults' = SetDefaultExtend(oresults, oplan[opc + 1], StepResults(opc + 1, n))
    /\ olog' = Append(olog, Handled(opc + 1, oplan[opc + 1], "returned"))
    /\ opc' = AfterStep(opc, Len(oplan), FALSE)
    /\ UNCHANGED <<oplan, oerrors, toolVars, midiVars, ptrVars, harmVars, envVars,
                   interpVars, bridgeVars>>

\* the agent's run raises: except Exception appends to errors
ODispatchRaises ==
    /\ opc < Len(oplan)
    /\ oplan[opc + 1] \in AgentMap
    /\ oerrors' = Append(oerrors, [step |-> opc + 1, text |-> "agent error"])
    /\ olog' = Append(olog, Handled(opc + 1, oplan[opc + 1], "raised"))
    /\ opc' = AfterStep(opc, Len(oplan), TRUE)
    /\ UNCHANGED <<oplan, oresults, toolVars, midiVars, ptrVars, harmVars, envVars,
                   interpVars, bridgeVars>>

\* return {"plan": plan, "results": results, "errors": errors}
OReturn ==
    /\ opc = Len(oplan)
    /\ opc' = Len(oplan) + 1
    /\ UNCHANGED <<oplan, oresults, oerrors, olog, toolVars, midiVars, ptrVars, harmVars,
                   envVars, interpVars, bridgeVars>>

(***************************************************************************)
(* 8. MIDI note tools: agents/tools.py add_midi_notes and read_midi_notes. *)
(*    The scripts compute in floats; quarter-note values are held here as  *)
(*    integers in units of 1/QnUnits of a quarter-note, in which a tick    *)
(*    and the fourth decimal of a beat are both whole.                     *)
(***************************************************************************)
MaxAddNotes == 2       \* notes of one add_midi_notes call

Ppq         == 960     \* ticks per quarter-note
RoundDigits == 4       \* round(float(start_qn), 4)
QnUnits     == 120000  \* units per quarter-note
TickUnits   == QnUnits \div Ppq
Round4Units == QnUnits \div (10 ^ RoundDigits)

\* the notes an agent may pass: n['pitch'], n['start'], n['length'] are used
\* as they come
MidiPitchSet  == {60, 128, -1}
MidiStartSet  == {0, 60, QnUnits \div 2}
MidiLengthSet == {QnUnits, 0, 60, -(QnUnits \div 2)}
MidiNoteInputs == [pitch : MidiPitchSet, start : MidiStartSet, length : MidiLengthSet]

\* the host's item: its position in milliseconds, the project tempo
MidiPosSet == {0, 2000}
MidiBpmSet == {120, 90}

\* TimeMap2_timeToQN(0, sec) at a constant tempo: sec * bpm / 60
TimeToQN(bpm, ms) == (ms * bpm * (QnUnits \div 1000)) \div 60

\* MIDI_GetPPQPosFromProjQN(take, qn): ticks since the item's start, a float
\* (held in units, TickUnits to the tick)
PPQPosFromProjQN(item, qn) == qn - TimeToQN(item.bpm, item.pos)

\* MIDI_GetProjQNFromPPQPos(take, ppq): the project quarter-note of a tick
ProjQNFromPPQPos(item, tick) == TimeToQN(item.bpm, item.pos) + tick * TickUnits

\* int(float(x)): truncation toward zero
IntOfTicks(x) == IF x >= 0 THEN x \div TickUnits ELSE -((-x) \div TickUnits)

\* round(x, 4): the nearest multiple of 0.0001, a tie to the even one
Round4(x) ==
    LET q == x \div Round4Units
        r == x % Round4Units
    IN  IF 2 * r < Round4Units THEN q * Round4Units
        ELSE IF 2 * r > Round4Units THEN (q + 1) * Round4Units
        ELSE IF q % 2 = 0 THEN q * Round4Units ELSE (q + 1) * Round4Units

\* abs_start_qn = item_start_qn + n['start']
AbsQNNoItem(item_qn, beat) == beat
AbsQN(item_qn, beat) == item_qn + beat

\* the host calls of the script's prologue
PositionCalls(item) ==
    << [call |-> "GetMediaItemInfo_Value", arg |-> "D_POSITION", ret |-> item.pos],
       [call |-> "TimeMap2_timeToQN", arg |-> item.pos,
        ret |-> TimeToQN(item.bpm, item.pos)] >>

\* the host calls of one turn of the loop over notes
NoteCalls(item, n) ==
    LET item_start_qn == TimeToQN(item.bpm, item.pos)
        abs_start_qn  == AbsQN(item_start_qn, n.start)
        abs_end_qn    == AbsQN(item_start_qn, n.start) + n.length
        start_ppq     == PPQPosFromProjQN(item, abs_start_qn)
        end_ppq       == PPQPosFromProjQN(item, abs_end_qn)
    IN  << [call |-> "MIDI_GetPPQPosFromProjQN", arg |-> abs_start_qn, ret |-> start_ppq],
           [call |-> "MIDI_GetPPQPosFromProjQN", arg |-> abs_end_qn, ret |-> end_ppq],
           [call |-> "MIDI_InsertNote",
            arg |-> [start |-> IntOfTicks(start_ppq), end |-> IntOfTicks(end_ppq),
                     pitch |-> n.pitch],
            ret |-> TRUE] >>

RECURSIVE AllNoteCalls(_, _)
AllNoteCalls(item, ns) ==
    IF ns = <<>> THEN <<>>
    ELSE NoteCalls(item, Head(ns)) \o AllNoteCalls(item, Tail(ns))

\* the notes the host holds after the calls of a log
InsertedBy(calls) == [ i \in 1..Len(SelectSeq(calls, LAMBDA c : c.call = "MIDI_InsertNote"))
                         |-> SelectSeq(calls, LAMBDA c : c.call = "MIDI_InsertNote")[i].arg ]

\* MIDI_Sort(take): the notes in the order of their start ticks
RECURSIVE MidiSort(_)
MidiSort(ns) ==
    IF ns = <<>> THEN <<>>
    ELSE LET m == CHOOSE i \in 1..Len(ns) :
                    \A j \in 1..Len(ns) :
                        ns[i].start < ns[j].start \/ (ns[i].start = ns[j].start /\ i <= j)
         IN  <<ns[m]>> \o MidiSort([ k \in 1..(Len(ns) - 1) |-> IF k < m THEN ns[k] ELSE ns[k + 1] ])

\* one entry of read_midi_notes' notes
ReadEntry(item, i) ==
    [index |-> i - 1, pitch |-> item.notes[i].pitch,
     start_beats |-> Round4(ProjQNFromPPQPos(item, item.notes[i].start)),
     end_beats   |-> Round4(ProjQNFromPPQPos(item, item.notes[i].end))]

MidiInit ==
    /\ mpc = "idle"
    /\ mreq = <<>>
    /\ mitem \in [pos : MidiPosSet, bpm : MidiBpmSet, notes : {<<>>}]
    /\ mlog = <<>>
    /\ mout = <<>>

\* add_midi_notes(track_index, item_index, notes)
AddMidiNotes ==
    /\ mpc = "idle"
    /\ \E ns \in SeqsUpTo(MidiNoteInputs, MaxAddNotes) :
          /\ mreq' = ns
          /\ mlog' = PositionCalls(mitem) \o AllNoteCalls(mitem, ns)
          /\ mitem' = [mitem EXCEPT !.notes = MidiSort(@ \o InsertedBy(AllNoteCalls(mitem, ns)))]
    /\ mpc' = "added"
    /\ UNCHANGED <<mout, toolVars, orchVars, ptrVars, harmVars, envVars, interpVars, bridgeVars>>

\* read_midi_notes(track_index, item_index)
ReadMidiNotes ==
    /\ mpc = "added"
    /\ mout' = [n_notes |-> Len(mitem.notes), item_position |-> mitem.pos,
                notes |-> [ i \in 1..Len(mitem.notes) |-> ReadEntry(mitem, i) ]]
    /\ mpc' = "read"
    /\ UNCHANGED <<mreq, mitem, mlog, toolVars, orchVars, ptrVars, harmVars, envVars,
                   interpVars, bridgeVars>>

(***************************************************************************)
(* Specifications                                                          *)
(***************************************************************************)
DefaultTracks ==
    << <<Item(0, TicksPerQN, SourceNotes(<< <<60, 100, 0>> >>))>>,
       <<Item(0, TicksPerQN, <<>>)>> >>

PtrIdle == ptrIn = NoneVal /\ ptrOut = <<>>

HarmIdle ==
    /\ tracks = DefaultTracks
    /\ hpc = "idle"
    /\ hreq = NoRequest
    /\ hloc = NoLocals
    /\ midiLog = <<>>

EnvIdle ==
    /\ envs = << AbsentEnv, AbsentEnv >>
    /\ selected = << FALSE, FALSE >>
    /\ lock = 0
    /\ epc = [r \in ReqIds |-> "none"]
    /\ ereq = [r \in ReqIds |-> NoBody]
    /\ eloc = [r \in ReqIds |-> NoEnvLocals]
    /\ eres = [r \in ReqIds |-> "none"]
    /\ envLog = <<>>
    /\ nreq = 0

InterpIdle == iin = NoBody /\ iout = <<>>

BridgeIdle ==
    /\ bpc = [r \in BridgeIds |-> "none"]
    /\ bep = [r \in BridgeIds |-> "none"]
    /\ bleft = [r \in BridgeIds |-> 0]
    /\ hostLog = <<>>

ToolIdle == tpc = "idle" /\ tcall = "none" /\ tres = <<>>

MidiIdle ==
    /\ mpc = "idle" /\ mreq = <<>> /\ mitem = <<>> /\ mlog = <<>> /\ mout = <<>>

OrchIdle ==
    /\ opc = 0 /\ oplan = <<>> /\ oresults = <<>> /\ oerrors = <<>> /\ olog = <<>>

ClientIdle == ToolIdle /\ MidiIdle /\ OrchIdle

\* _is_null_ptr applied to every handle value
InitPtr == PtrInit /\ HarmIdle /\ EnvIdle /\ InterpIdle /\ BridgeIdle /\ ClientIdle
NextPtrSpec == CheckPtr \/ NextPtr
SpecPtr == InitPtr /\ [][NextPtrSpec]_vars

\* one harmony tool call on a project
InitHarmony == PtrIdle /\ HarmInit /\ EnvIdle /\ InterpIdle /\ BridgeIdle /\ ClientIdle
NextHarmony == HStart \/ HReadSource \/ HTarget \/ HDelete \/ HInsert \/ HSort \/ HFail
SpecHarmony == InitHarmony /\ [][NextHarmony]_vars

\* two envelope requests, served by the bridge's thread pool
InitEnvelope ==
    /\ PtrIdle
    /\ tracks = DefaultTracks /\ hpc = "idle" /\ hreq = NoRequest
    /\ hloc = NoLocals /\ midiLog = <<>>
    /\ EnvInit
    /\ InterpIdle /\ BridgeIdle /\ ClientIdle
NextEnvelope ==
    \E r \in ReqIds :
        \/ EArrive(r) \/ EAcquire(r)
        \/ ECreateStart(r) \/ EToggle(r) \/ EPoints(r) \/ EWrite(r)
        \/ ESortPoints(r) \/ ERefresh(r)
        \/ ERemoveStart(r) \/ ERemoveWrite(r) \/ ERemoveRefresh(r)
        \/ EFail(r)
SpecEnvelope == InitEnvelope /\ [][NextEnvelope]_vars

\* the point list and the chunk of one request
InitInterp == PtrIdle /\ HarmIdle /\ EnvIdle /\ InterpInit /\ BridgeIdle /\ ClientIdle
NextInterp == Interpolate \/ BuildChunk
SpecInterp == InitInterp /\ [][NextInterp]_vars

\* two requests to any of the endpoints, served by the bridge's thread pool
InitBridge ==
    /\ PtrIdle /\ HarmIdle /\ InterpIdle
    /\ envs = << AbsentEnv, AbsentEnv >> /\ selected = << FALSE, FALSE >>
    /\ epc = [r \in ReqIds |-> "none"] /\ ereq = [r \in ReqIds |-> NoBody]
    /\ eloc = [r \in ReqIds |-> NoEnvLocals] /\ eres = [r \in ReqIds |-> "none"]
    /\ envLog = <<>> /\ nreq = 0
    /\ BridgeInit
    /\ ClientIdle
NextBridge ==
    \E r \in BridgeIds :
        \/ BArrive(r) \/ BAcquire(r) \/ BCallBegin(r) \/ BCallEnd(r)
        \/ BCallRaise(r) \/ BReturn(r)
SpecBridge == InitBridge /\ [][NextBridge]_vars

\* every host call returns and a free lock is taken by a waiting handler
BridgeStep(r) ==
    BAcquire(r) \/ BCallBegin(r) \/ BCallEnd(r) \/ BCallRaise(r) \/ BReturn(r)
SpecBridgeFair == SpecBridge /\ \A r \in BridgeIds : WF_vars(BridgeStep(r))

\* one tool call, and another client's request at the bridge
InitTool ==
    /\ PtrIdle /\ HarmIdle /\ InterpIdle /\ MidiIdle /\ OrchIdle
    /\ envs = << AbsentEnv, AbsentEnv >> /\ selected = << FALSE, FALSE >>
    /\ epc = [r \in ReqIds |-> "none"] /\ ereq = [r \in ReqIds |-> NoBody]
    /\ eloc = [r \in ReqIds |-> NoEnvLocals] /\ eres = [r \in ReqIds |-> "none"]
    /\ envLog = <<>> /\ nreq = 0
    /\ BridgeInit
    /\ ToolInit
NextTool ==
    \/ TSend \/ TRefused \/ TArrive \/ TTimeout \/ TResponse
    \/ \E r \in BridgeIds : TRival(r) \/ TBridge(r)
SpecTool == InitTool /\ [][NextTool]_vars

\* add_midi_notes on an item at any position and tempo, then read_midi_notes
InitMidi ==
    /\ PtrIdle /\ HarmIdle /\ EnvIdle /\ InterpIdle /\ BridgeIdle /\ ToolIdle /\ OrchIdle
    /\ MidiInit
NextMidi == AddMidiNotes \/ ReadMidiNotes
SpecMidi == InitMidi /\ [][NextMidi]_vars

\* one call of the orchestrator's handle, on any plan
InitOrch ==
    /\ PtrIdle /\ HarmIdle /\ EnvIdle /\ InterpIdle /\ BridgeIdle /\ ToolIdle /\ MidiIdle
    /\ OrchInit
NextOrch == OUnknown \/ ODispatch \/ ODispatchRaises \/ OReturn
SpecOrch == InitOrch /\ [][NextOrch]_vars

\* every host call returns and a free lock is taken by a waiting handler
SpecToolFair == SpecTool /\ \A r \in BridgeIds : WF_vars(TBridge(r))

(***************************************************************************)
(* Properties                                                              *)
(***************************************************************************)
IsInsert(e) == e.op = "insert"
IsDelete(e) == e.op = "delete"
Inserts == SelectSeq(midiLog, IsInsert)
Deletes == SelectSeq(midiLog, IsDelete)

\* the (note, interval) pairs of the running call whose sum is a MIDI pitch
PairsInRange ==
    { <<a, b>> \in (1..Len(hloc.src_notes)) \X (1..Len(hreq.intervals)) :
        /\ hloc.src_notes[a].pitch + hreq.intervals[b] >= 0
        /\ hloc.src_notes[a].pitch + hreq.intervals[b] <= 127 }

InsertsOfPair(a, b) == { i \in 1..Len(Inserts) : Inserts[i].from = a /\ Inserts[i].iv = b }

\* C1: extend_harmony and the insert phase of replace_harmony write exactly
\* one note per (source note, interval) pair whose sum lies in 0..127, with
\* pitch = source pitch + interval, and nothing for any other pair (dropped,
\* not clamped); with no source note or no interval nothing is written and
\* the script still runs to its end.
C1_ExactlyInRangePairs ==
    /\ \A i \in 1..Len(Inserts) :
          /\ <<Inserts[i].from, Inserts[i].iv>> \in PairsInRange
          /\ Inserts[i].note.pitch =
                hloc.src_notes[Inserts[i].from].pitch + hreq.intervals[Inserts[i].iv]
          /\ Cardinality(InsertsOfPair(Inserts[i].from, Inserts[i].iv)) = 1
    /\ hpc \in {"sort", "done"} =>
          /\ \A pr \in PairsInRange : Cardinality(InsertsOfPair(pr[1], pr[2])) = 1
          /\ Len(Inserts) = Cardinality(PairsInRange)
          /\ hloc.count = Cardinality(PairsInRange)
          /\ (hloc.src_notes = <<>> \/ hreq.intervals = <<>>) => Len(Inserts) = 0

\* a finished call that wrote one pair and dropped another
C1_Witness ==
    /\ hpc = "done"
    /\ Len(Inserts) >= 1
    /\ Cardinality(PairsInRange) < Len(hloc.src_notes) * Len(hreq.intervals)

\* C2: when replace_harmony has run to its end on an existing target item,
\* the item holds as many notes as there are in-range (note, interval) pairs,
\* whatever it held before; on a target that was empty no deletion is issued
\* and the script still runs to its end.
C2_ReplaceCount ==
    (hreq.op = "replace" /\ hloc.tgt_take # NullTake) =>
        /\ hpc = "done" => Len(NotesOf(tracks, hloc.tgt_take)) = Cardinality(PairsInRange)
        /\ (hpc \in {"insert", "sort", "done"} /\ hloc.old_count = 0) => Len(Deletes) = 0

\* a finished replace on a target that held notes and now holds another number
C2_Witness ==
    /\ hpc = "done" /\ hreq.op = "replace" /\ hloc.tgt_take # NullTake
    /\ hloc.old_count >= 2
    /\ Len(NotesOf(tracks, hloc.tgt_take)) = 1

\* C3: in replace_harmony every deletion is issued before the first
\* insertion, and no run, a failed one included, ends with only some of the
\* target's old notes deleted.
C3_DeleteAllOrNothing ==
    /\ \A i, j \in 1..Len(midiLog) :
          (midiLog[i].op = "delete" /\ midiLog[j].op = "insert") => i < j
    /\ (hreq.op = "replace" /\ hpc \in {"done", "failed"}) =>
          Len(Deletes) \in {0, hloc.old_count}

\* C4: every harmony note written carries the velocity and the channel of
\* the source note it was derived from (read on the source item, which the
\* call does not write to unless it is the target itself).
C4_VelocityChannelCopied ==
    hloc.src_take # hloc.tgt_take =>
        \A i \in 1..Len(Inserts) :
            LET src == NotesOf(tracks, hloc.src_take)[Inserts[i].from] IN
            /\ Inserts[i].note.vel = src.vel
            /\ Inserts[i].note.chan = src.chan

\* the pitches extend emits, by recursion on the source pitches and the
\* intervals: all intervals of the first note, then those of the next
RECURSIVE EmitForNote(_, _)
EmitForNote(p, ivs) ==
    IF ivs = <<>> THEN <<>>
    ELSE (IF p + Head(ivs) >= 0 /\ p + Head(ivs) <= 127 THEN <<p + Head(ivs)>> ELSE <<>>)
         \o EmitForNote(p, Tail(ivs))

RECURSIVE EmitAll(_, _)
EmitAll(ns, ivs) ==
    IF ns = <<>> THEN <<>> ELSE EmitForNote(Head(ns).pitch, ivs) \o EmitAll(Tail(ns), ivs)

IsPrefix(a, b) == Len(a) <= Len(b) /\ SubSeq(b, 1, Len(a)) = a

InsertedPitches == [ i \in 1..Len(Inserts) |-> Inserts[i].note.pitch ]

\* C5: the notes are written in note-major, interval-minor order: at every
\* moment the pitches written so far are the start of the list "all
\* intervals of source note 0 in list order, then those of note 1, ...",
\* and the whole list once the script has run to its end.
C5_NoteMajorOrder ==
    /\ IsPrefix(InsertedPitches, EmitAll(hloc.src_notes, hreq.intervals))
    /\ hpc = "done" => InsertedPitches = EmitAll(hloc.src_notes, hreq.intervals)
    /\ \A i, j \in 1..Len(Inserts) :
          i < j => \/ Inserts[i].from < Inserts[j].from
                   \/ Inserts[i].from = Inserts[j].from /\ Inserts[i].iv < Inserts[j].iv

\* a single source note of pitch 60, intervals [4, 7]: 64 is written, then 67
C5_Witness ==
    /\ hpc = "done"
    /\ Len(hloc.src_notes) = 1 /\ hloc.src_notes[1].pitch = 60
    /\ hreq.intervals = <<4, 7>>
    /\ InsertedPitches = <<64, 67>>

\* the policy of the pointer check, stated on the value itself: a string is a
\* zero pointer when, after some "0x", it goes on with one or more "0" and
\* then only closing brackets
ZeroHexPointer(s) ==
    \E i \in 1..(Len(s) - 1), j \in 1..Len(s) :
        /\ s[i] = "0" /\ s[i + 1] = "x"
        /\ i + 2 <= j
        /\ \A k \in (i + 2)..j : s[k] = "0"
        /\ \A k \in (j + 1)..Len(s) : s[k] = ")"

PolicyNull(p) ==
    \/ p.k = "none"
    \/ p.k \in {"int", "float"} /\ p.v = 0
    \/ p.k = "str" /\ p.s \in { <<>>, <<"0">>, <<"N", "o", "n", "e">>, <<"n", "i", "l">> }
    \/ p.k = "str" /\ ZeroHexPointer(p.s)

\* C6: _is_null_ptr always returns a boolean; it returns true exactly for
\* None, zero (the number, or its text "0"), the empty string, "None", "nil"
\* and a 0x string whose hex digits are all zero, false for any other value.
C6_NullPolicy ==
    ptrOut # <<>> => (ptrOut[1] \in BOOLEAN /\ ptrOut[1] = PolicyNull(ptrIn))

\* the typed zero pointer "(T*)0x000" was found null
C6_Witness ==
    /\ ptrIn = StrVal(TypePrefix \o <<"0", "x", "0", "0", "0">>)
    /\ ptrOut = <<TRUE>>

IsChunkWrite(e) == e.call = "SetEnvelopeStateChunk"
ChunkWrites == SelectSeq(envLog, IsChunkWrite)

\* C7: every host write through a queried handle (SetEnvelopeStateChunk on
\* an envelope handle, MIDI_InsertNote and MIDI_DeleteNote on a take handle)
\* is issued on a handle that the null check has tested and found non-null.
C7_WritesOnCheckedHandles ==
    /\ \A i \in 1..Len(midiLog) : midiLog[i].checked /\ midiLog[i].take # NullTake
    /\ \A i \in 1..Len(ChunkWrites) :
          ChunkWrites[i].checked /\ ~IsNullPtr(ChunkWrites[i].handle)

\* the envelope half of C7 alone, which the handlers do keep
EnvWritesOnCheckedHandles ==
    \A i \in 1..Len(ChunkWrites) :
        ChunkWrites[i].checked /\ ~IsNullPtr(ChunkWrites[i].handle)

\* C8: the points of every chunk create_volume_envelope hands to the host
\* are in ascending time order.
C8_ChunkTimeAscending ==
    \A i \in 1..Len(ChunkWrites) :
        ChunkWrites[i].body.kind = "create" => IsTimeAscending(PointsOf(ChunkWrites[i].chunk))

\* C9: decoding the chunk written for a request gives back the flags that
\* were encoded (active and visible for a create, neither for a remove) and
\* the time-ascending copy of the request's (expanded) points.
C9_DecodeEncodeRoundTrip ==
    \A i \in 1..Len(ChunkWrites) :
        LET e == ChunkWrites[i]
            d == DecodeChunk(e.chunk)
        IN  IF e.body.kind = "create"
            THEN d = [active |-> TRUE, visible |-> TRUE,
                      points |-> SortByTime(ExpandedPoints(e.body).pts)]
            ELSE d = [active |-> FALSE, visible |-> FALSE, points |-> <<>>]

SeqRange(s) == { s[i] : i \in 1..Len(s) }
CountIn(s, x) == Cardinality({ i \in 1..Len(s) : s[i] = x })
IsPermutation(a, b) ==
    /\ Len(a) = Len(b)
    /\ \A x \in SeqRange(a) \cup SeqRange(b) : CountIn(a, x) = CountIn(b, x)

\* the points the request of a chunk write asked for
AskedPoints(e) == IF e.body.kind = "create" THEN ExpandedPoints(e.body).pts ELSE <<>>

LastChunkWrite == ChunkWrites[Len(ChunkWrites)]

\* C10 as amended: once a chunk has been written, the envelope holds exactly
\* the points (each as often) that the request which wrote last asked for,
\* never points of an older state or of another request; and after a
\* successful create that wrote last they stand in ascending time order.
C10_LastWriterWholeList ==
    ChunkWrites # <<>> =>
        LET e   == LastChunkWrite
            pts == envs[HandleTrack(envs, e.handle) + 1].points
        IN  /\ IsPermutation(pts, AskedPoints(e))
            /\ (e.body.kind = "create" /\ eres[e.req] = "ok") => IsTimeAscending(pts)

\* C10 as claimed: after a successful create that wrote last, the envelope's
\* point list is the request's (expanded) point list itself.
C10_ExactRequestList ==
    (ChunkWrites # <<>> /\ LastChunkWrite.body.kind = "create"
        /\ eres[LastChunkWrite.req] = "ok") =>
        envs[HandleTrack(envs, LastChunkWrite.handle) + 1].points = AskedPoints(LastChunkWrite)

\* both requests wrote, the second writer a successful create of two points
C10_Witness ==
    /\ Len(ChunkWrites) = 2
    /\ ChunkWrites[1].req # ChunkWrites[2].req
    /\ LastChunkWrite.body.kind = "create"
    /\ Len(AskedPoints(LastChunkWrite)) >= 2
    /\ eres[LastChunkWrite.req] = "ok"

\* ---- REAPY_LOCK ----
InHandler(r) == bpc[r] \in {"locked", "incall"}

\* C11: no two bridge requests execute host calls at the same time: a
\* request is inside its handler only while it holds REAPY_LOCK, at most one
\* host call is in progress, every host call of /status, /execute, /analyze,
\* /envelope/volume, /envelope/volume/remove and /fx/presets/load begins and
\* ends with its request holding the lock, and the calls of one request are
\* never interleaved with another request's.
C11_HostCallsUnderLock ==
    /\ \A r \in BridgeIds : InHandler(r) => lock = r
    /\ Cardinality({ r \in BridgeIds : bpc[r] = "incall" }) <= 1
    /\ \A i \in 1..Len(hostLog) :
          hostLog[i].holder = hostLog[i].req /\ hostLog[i].ep \in Endpoints
    /\ \A i \in 1..Len(hostLog) : \A k \in i..Len(hostLog) :
          hostLog[i].req = hostLog[k].req =>
              \A j \in i..k : hostLog[j].req = hostLog[i].req

\* both requests have made host calls, the second while the first was
\* already waiting or running
C11_Witness ==
    /\ \A r \in BridgeIds : bpc[r] = "done"
    /\ bep[1] = "/execute" /\ bep[2] = "/envelope/volume"
    /\ \A r \in BridgeIds : \E i \in 1..Len(hostLog) : hostLog[i].req = r
    /\ Len(hostLog) >= 6

\* ---- what the envelope handlers leave alone ----
InitialSelection == << FALSE, TRUE >>
InitialOtherEnv  == EnvState(TRUE, TRUE, TRUE, <<Point(1, UnityGain, 0)>>)

\* C12: create_volume_envelope and remove_volume_envelope modify only the
\* target track's volume envelope: the items of every track, the track-level
\* state of every track (its selection among it) and the envelope of the
\* track that no request names stay as they were, and no host call made is a
\* track-level state chunk write.
C12_OnlyTargetEnvelope ==
    /\ tracks = DefaultTracks
    /\ selected = InitialSelection
    /\ envs[2] = InitialOtherEnv
    /\ \A i \in 1..Len(envLog) : envLog[i].call # "SetTrackStateChunk"

\* ---- remove_volume_envelope ----
RemoveDone(r) == epc[r] = "done" /\ ereq[r].kind = "remove" /\ eres[r] = "ok"
CallsBy(r) == { i \in 1..Len(envLog) : envLog[i].req = r }
RemovedEnv == EnvState(TRUE, FALSE, FALSE, <<>>)

\* C13: remove_volume_envelope never deletes the envelope object.  Every
\* chunk it writes goes to a non-null handle and says inactive, hidden, no
\* points; a remove that found the handle null has returned success without
\* any host call; a remove that found it non-null has written, and when its
\* write is the last one the envelope still exists, inactive, hidden and with
\* zero points; two removes of the same track leave what one remove leaves.
C13_RemoveKeepsEnvelope ==
    /\ \A i \in 1..Len(ChunkWrites) :
          ChunkWrites[i].body.kind = "remove" =>
              /\ ~IsNullPtr(ChunkWrites[i].handle)
              /\ DecodeChunk(ChunkWrites[i].chunk)
                    = [active |-> FALSE, visible |-> FALSE, points |-> <<>>]
    /\ \A r \in ReqIds :
          RemoveDone(r) =>
              IF IsNullPtr(eloc[r].env)
              THEN CallsBy(r) = {}
              ELSE /\ \E i \in CallsBy(r) : IsChunkWrite(envLog[i])
                   /\ LastChunkWrite.req = r =>
                         envs[ereq[r].track + 1] = RemovedEnv
    /\ ((\A r \in ReqIds : RemoveDone(r) /\ ereq[r].track = 0) =>
           /\ envs[1] \in {RemovedEnv, AbsentEnv}
           /\ ChunkWrites # <<>> => (envs[1] = RemovedEnv /\ Len(ChunkWrites) = 2))

\* the same track removed twice, both removes writing
C13_Witness ==
    /\ \A r \in ReqIds : RemoveDone(r) /\ ereq[r].track = 0
    /\ Len(ChunkWrites) = 2
    /\ envs[1] = RemovedEnv

\* ---- interpolation ----
IsStrictlyAscending(pts) == \A i \in 1..(Len(pts) - 1) : pts[i].time < pts[i + 1].time

\* the value in effect at time t: that of the last point written at t
ValueAt(pts, t) ==
    LET idx == { i \in 1..Len(pts) : pts[i].time = t }
    IN  pts[CHOOSE i \in idx : \A j \in idx : j <= i].value

Interpolated ==
    /\ Len(iout) >= 1
    /\ iin.curve = "constant_db" /\ Len(iin.points) >= 2 /\ iin.steps >= 1

\* C14: whenever a constant_db request (its points in time order) asks for
\* gain 0.0 at a point that ends a segment, the final point or an interior
\* one, the value in effect at that point's time in the generated list is
\* exactly 0.0.
C14_SilenceExact ==
    (Interpolated /\ IsStrictlyAscending(iin.points)) =>
        \A i \in 2..Len(iin.points) :
            iin.points[i].value = SilentGain =>
                ValueAt(iout[1].pts, iin.points[i].time) = SilentGain

\* the generated points of segment i (input points i and i + 1)
SegmentOf(i) ==
    SubSeq(iout[1].pts, (i - 1) * (iin.steps + 1) + 1, i * (iin.steps + 1))

Between(a, x, b) == (a <= x /\ x <= b) \/ (b <= x /\ x <= a)

\* C15: for constant_db with n >= 2 input points and steps >= 1 the
\* interpolation does not fail and generates steps + 1 points for each
\* consecutive pair of input points, (n - 1) * (steps + 1) in total; the
\* points of a pair start at the first point's time, end at the second
\* point's time and lie between the two; two points with 20 steps give 21.
C15_PointCount ==
    Interpolated =>
        /\ ~iout[1].err
        /\ Len(iout[1].pts) = (Len(iin.points) - 1) * (iin.steps + 1)
        /\ \A i \in 1..(Len(iin.points) - 1) :
              LET seg == SegmentOf(i)
                  t0  == iin.points[i].time
                  t1  == iin.points[i + 1].time
              IN  /\ Len(seg) = iin.steps + 1
                  /\ seg[1].time = t0
                  /\ seg[Len(seg)].time = t1
                  /\ \A k \in 1..Len(seg) : Between(t0, seg[k].time, t1)
        /\ (Len(iin.points) = 2 /\ iin.steps = DefaultSteps) => Len(iout[1].pts) = 21

\* two points expanded with 20 steps
C15_Witness ==
    /\ Interpolated
    /\ Len(iin.points) = 2 /\ iin.steps = DefaultSteps
    /\ iin.points[1].time # iin.points[2].time
    /\ Len(iout[1].pts) = 21

\* the decibel value a requested gain stands for in the interpolation: -80 dB
\* for the gain 0.0
DbOf(v) == IF v = SilentGain THEN DbFloor * DbScale ELSE v

Abs(x) == IF x < 0 THEN -x ELSE x

IsFadeOut ==
    /\ Interpolated
    /\ Len(iin.points) = 2 /\ iin.steps = DefaultSteps
    /\ iin.points[1].value = UnityGain /\ iin.points[2].value = SilentGain

ChunkWritesBy(r) == { i \in CallsBy(r) : IsChunkWrite(envLog[i]) }

\* C17: a constant_db request (of two points or more, where the step count
\* is used) whose num_interpolation_points is less than 1 is never applied:
\* it writes no envelope chunk and does not return success.
C17_StepsAtLeastOne ==
    \A r \in ReqIds :
        (ereq[r].kind = "create" /\ ereq[r].curve = "constant_db"
            /\ Len(ereq[r].points) >= 2 /\ ereq[r].steps < 1) =>
            /\ ChunkWritesBy(r) = {}
            /\ eres[r] # "ok"

\* C18: interpolation is the identity whenever the curve kind is linear or
\* the input has fewer than two points, for every value of steps: it does
\* not fail, its result is the request's point list, and the point lines of
\* the chunk built of it are the request's points in the request's order.
C18_IdentityWhenNotInterpolated ==
    (iin.curve = "linear" \/ Len(iin.points) < 2) =>
        /\ Len(iout) >= 1 => (~iout[1].err /\ iout[1].pts = iin.points)
        /\ Len(iout) = 2 => PointsOf(iout[2]) = iin.points

\* a linear request of three points out of time order with a step count of
\* zero, its chunk built
C18_Witness ==
    /\ Len(iout) = 2
    /\ iin.curve = "linear" /\ iin.steps = 0
    /\ Len(iin.points) = 3 /\ ~IsTimeAscending(iin.points)
    /\ PointsOf(iout[2]) = iin.points

\* C19: after every envelope chunk write, by create_volume_envelope and by
\* remove_volume_envelope alike, a request that returns success has issued a
\* re-sort of the envelope's points and a UI refresh after the write.
C19_SortAndRefreshAfterWrite ==
    \A r \in ReqIds :
        (epc[r] = "done" /\ eres[r] = "ok") =>
            \A i \in ChunkWritesBy(r) :
                /\ \E j \in CallsBy(r) : j > i /\ envLog[j].call = "Envelope_SortPoints"
                /\ \E j \in CallsBy(r) : j > i /\ envLog[j].call = "UpdateArrange"

TrackOutOfRange(r) ==
    ereq[r].kind # "none" /\ ~(0 <= ereq[r].track /\ ereq[r].track < Len(envs))

\* C20: an envelope operation given a track index outside 0..n_tracks-1
\* issues no host write and, once it has returned, has returned an error,
\* never success.
C20_BadIndexIsError ==
    \A r \in ReqIds :
        TrackOutOfRange(r) =>
            /\ ChunkWritesBy(r) = {}
            /\ epc[r] = "done" => eres[r] = "error"

\* ---- tool functions ----
ToolReturned == tpc = "returned"
TimedOut == ToolReturned /\ tres[1].cause = "timeout"

\* C21: every failure of a tool operation (bridge unreachable, timeout, HTTP
\* error status, empty or malformed response, exception in the host script)
\* comes back to the caller as a structured result: no tool function ends
\* by raising.
C21_FailuresAreStructured ==
    ToolReturned => tres[1].raised = ""

\* C22: when the call to the bridge times out, a tool that answers with a
\* result reports the outcome as unknown, not as a failure: the result is
\* not marked success = False as the result of a failed operation is.
C22_TimeoutIsNotFailure ==
    (TimedOut /\ tres[1].raised = "") => tres[1].success # FALSE

\* C27: a tool call that timed out at the caller is not cancelled at the
\* bridge: its request, queued for the lock or running, is still handled to
\* the end after the caller has been told of the timeout.
C27_TimedOutRequestStillRuns ==
    TimedOut ~> (bpc[ToolReq] = "done")

\* the caller was told of the timeout while the request was still queued
\* for the lock; the handler then ran and made its host calls
C27_Witness ==
    /\ TimedOut
    /\ tres[2] = "wait"
    /\ bpc[ToolReq] = "done"
    /\ \E i \in 1..Len(hostLog) : hostLog[i].req = ToolReq /\ hostLog[i].ev = "begin"

\* C30: every bridge request that acquires REAPY_LOCK releases it on every
\* path (success, early return, exception in a host call): provided each
\* host call returns, every waiting request eventually acquires the lock and
\* completes, and the lock is free whenever no request is inside a handler.
C30_LockAlwaysReleased ==
    /\ \A r \in BridgeIds : (bpc[r] = "wait") ~> (bpc[r] = "done")
    /\ []((\A r \in BridgeIds : ~InHandler(r)) => lock = 0)

\* both requests are through and the lock is free: one returned early
\* without a host call, the other after its host calls
C30_Witness ==
    /\ \A r \in BridgeIds : bpc[r] = "done"
    /\ lock = 0
    /\ bep[1] = "/fx/presets/load" /\ bep[2] = "/execute"
    /\ \A i \in 1..Len(hostLog) : hostLog[i].req = 2
    /\ Len(hostLog) >= 2

\* ---- the visibility toggle ----
ToggleCallsBy(r) == { i \in CallsBy(r) : envLog[i].call = "Main_OnCommand" }

\* C26: create_volume_envelope issues the visibility toggle command at most
\* once per request and only when the first query of the envelope handle
\* returned a null handle; every chunk it writes goes through a handle that
\* passed the null check, and after a toggle through the handle queried
\* again after it, never the one obtained before.  remove_volume_envelope
\* never issues the command.
C26_ToggleOnceThenRequery ==
    \A r \in ReqIds :
        /\ Cardinality(ToggleCallsBy(r)) <= 1
        /\ ereq[r].kind = "remove" => ToggleCallsBy(r) = {}
        /\ \A i \in ToggleCallsBy(r) : envLog[i].handle = NullEnvHandle
        /\ ereq[r].kind = "create" =>
              \A j \in ChunkWritesBy(r) :
                  /\ envLog[j].handle = EnvHandleOf(ereq[r].track)
                  /\ envLog[j].checked
                  /\ \A i \in ToggleCallsBy(r) :
                        i < j /\ envLog[j].handle # envLog[i].handle

\* a create on a track without envelope: the toggle issued once, the chunk
\* written through the handle queried after it, success returned
C26_Witness ==
    \E r \in ReqIds :
        /\ ereq[r].kind = "create" /\ epc[r] = "done" /\ eres[r] = "ok"
        /\ Cardinality(ToggleCallsBy(r)) = 1
        /\ ChunkWritesBy(r) # {}

\* ---- replace_harmony onto its own source ----
\* the notes the target held before the deletion loop, in their order (the
\* loop deletes from the last index down)
DeletedNotes == [ a \in 1..Len(Deletes) |-> Deletes[Len(Deletes) + 1 - a].note ]

HarmonyPairsOf(ns) ==
    { <<a, b>> \in (1..Len(ns)) \X (1..Len(hreq.intervals)) :
        /\ PitchMin <= ns[a].pitch + hreq.intervals[b]
        /\ ns[a].pitch + hreq.intervals[b] <= PitchMax }

\* C29: replace_harmony reads all source notes before it deletes anything
\* from the target: no deletion is logged before the reading is over, and
\* when the source item and the target item are the same item the finished
\* call leaves the item holding the harmony of its original notes (one note
\* per in-range pair, at the original note's place), not an empty item.
C29_SelfReplaceKeepsHarmony ==
    /\ hpc \in {"idle", "read"} => midiLog = <<>>
    /\ (hreq.op = "replace" /\ hreq.src = hreq.tgt /\ hpc = "done"
          /\ hloc.tgt_take # NullTake) =>
          LET orig == DeletedNotes
              now  == NotesOf(tracks, hloc.tgt_take)
          IN  /\ Len(orig) = hloc.old_count
              /\ Len(now) = Cardinality(HarmonyPairsOf(orig))
              /\ \A p \in HarmonyPairsOf(orig) :
                    \E i \in 1..Len(now) :
                        /\ now[i].pitch = orig[p[1]].pitch + hreq.intervals[p[2]]
                        /\ now[i].s = orig[p[1]].s /\ now[i].e = orig[p[1]].e
                        /\ now[i].vel = orig[p[1]].vel

\* an item of two notes replaced by the harmony of its own notes
C29_Witness ==
    /\ hreq.op = "replace" /\ hreq.src = hreq.tgt /\ hpc = "done"
    /\ hloc.tgt_take # NullTake
    /\ Len(Deletes) = 2
    /\ Len(NotesOf(tracks, hloc.tgt_take)) >= 3

\* ---- orchestrator ----
OrchReturned == opc = Len(oplan) + 1
FailedSteps == { i \in 1..Len(olog) : olog[i].outcome \in {"unknown", "raised"} }
ResultsOfStep(i) ==
    { <<a, k>> \in { <<a, k>> \in (DOMAIN oresults) \X (1..(MaxPlan * MaxResults + MaxResults)) :
                        k <= Len(oresults[a]) } :
        oresults[a][k].step = i }

\* C28: handle runs the plan's steps strictly in plan order, one at a time;
\* a step that names an unknown agent or whose agent raises adds exactly one
\* entry to errors and contributes no results, a step whose agent returns
\* adds its results under its agent and no error, and every later step of
\* the plan still runs: when handle returns, every step has been handled.
C28_StepsInOrderErrorsIsolated ==
    /\ \A i \in 1..Len(olog) : olog[i].step = i /\ olog[i].agent = oplan[i]
    /\ Len(olog) <= Len(oplan)
    /\ OrchReturned => Len(olog) = Len(oplan)
    /\ Len(oerrors) = Cardinality(FailedSteps)
    /\ \A i \in 1..Len(olog) :
          IF i \in FailedSteps
          THEN /\ Cardinality({ e \in 1..Len(oerrors) : oerrors[e].step = i }) = 1
               /\ ResultsOfStep(i) = {}
          ELSE /\ \A e \in 1..Len(oerrors) : oerrors[e].step # i
               /\ \A p \in ResultsOfStep(i) : p[1] = oplan[i]
    /\ \A e1, e2 \in 1..Len(oerrors) : e1 < e2 => oerrors[e1].step < oerrors[e2].step

\* a plan of three steps: the first names an unknown agent, the second's
\* agent raises, the third's agent returns results; handle has returned
C28_Witness ==
    /\ OrchReturned
    /\ Len(oplan) = 3 /\ Len(oerrors) = 2
    /\ olog[1].outcome = "unknown" /\ olog[2].outcome = "raised"
    /\ olog[3].outcome = "returned" /\ Cardinality(ResultsOfStep(3)) = 2

\* ---- MIDI note tools ----
InsertCalls == { i \in 1..Len(mlog) : mlog[i].call = "MIDI_InsertNote" }

\* C23 (as stated): every note written to the host has its pitch in 0..127
\* and its start tick strictly below its end tick, whatever notes
\* add_midi_notes is given.
C23_WrittenNotesValid ==
    \A i \in InsertCalls :
        /\ mlog[i].arg.pitch \in 0..127
        /\ mlog[i].arg.start < mlog[i].arg.end

\* C24 (as stated): a note written at item-relative beat b is reported by
\* read_midi_notes at beat b, within one tick (1/960 of a quarter-note),
\* wherever the item lies.
C24_ReadReportsItemRelativeBeat ==
    mpc = "read" =>
        \A k \in 1..Len(mreq) :
            \E i \in 1..Len(mout.notes) :
                /\ mout.notes[i].pitch = mreq[k].pitch
                /\ Abs(mout.notes[i].start_beats - mreq[k].start) <= TickUnits

\* C25: add_midi_notes reads the item's position in seconds, turns it into
\* the item's quarter-note position through the tempo map, and for the k-th
\* note asks the host for the ticks of (item quarter-note + start) and of
\* (item quarter-note + start + length); the ticks it inserts are those two
\* answers with the fraction cut off and nothing else done to them, so the
\* start tick is the note's own beat offset in ticks at every tempo and
\* item position.
C25_TicksFromItemQNPlusBeat ==
    mpc # "idle" =>
        /\ Len(mlog) = 2 + 3 * Len(mreq)
        /\ mlog[1].call = "GetMediaItemInfo_Value" /\ mlog[1].ret = mitem.pos
        /\ mlog[2].call = "TimeMap2_timeToQN" /\ mlog[2].arg = mlog[1].ret
        /\ mlog[2].ret * 60 = mitem.pos * mitem.bpm * (QnUnits \div 1000)
        /\ \A k \in 1..Len(mreq) :
              LET s == mlog[3 * k]
                  e == mlog[3 * k + 1]
                  w == mlog[3 * k + 2]
              IN  /\ s.call = "MIDI_GetPPQPosFromProjQN"
                  /\ s.arg = mlog[2].ret + mreq[k].start
                  /\ e.call = "MIDI_GetPPQPosFromProjQN"
                  /\ e.arg = mlog[2].ret + mreq[k].start + mreq[k].length
                  /\ w.call = "MIDI_InsertNote"
                  /\ w.arg.start * TickUnits <= s.ret
                  /\ s.ret < (w.arg.start + 1) * TickUnits
                  /\ Abs(w.arg.end * TickUnits) <= Abs(e.ret)
                  /\ Abs(e.ret) < (Abs(w.arg.end) + 1) * TickUnits
                  /\ w.arg.start = mreq[k].start \div TickUnits

\* an item two seconds into a 90 bpm project received a note at half a beat
\* and a note at a fraction of a tick
C25_Witness ==
    /\ mpc = "added"
    /\ mitem.pos = 2000 /\ mitem.bpm = 90
    /\ Len(mreq) = 2
    /\ mreq[1].start = QnUnits \div 2 /\ mreq[2].start = 60
    /\ mlog[5].arg.start = Ppq \div 2 /\ mlog[8].arg.start = 0
====
